---- MODULE Spec2Model ----
(***************************************************************************)
(* BlueClaw: graduation discovery, filtering and scoring engine            *)
(* (GraduationWatcher) and the two autopost schedulers (AutopostService    *)
(* for Discord guilds, TelegramAutopostService for Telegram chats).        *)
(*                                                                         *)
(* Conventions                                                             *)
(*  - Scores are carried in half points: a model score s stands for the    *)
(*    JavaScript number s/2 (every adjustment of calculateScore is a       *)
(*    multiple of 0.5), so the interval [0,10] is 0..20 and 6.5 is 13.     *)
(*  - Ratios (liq/mcap*100, buys/sells, vol5m against vol1h/12) are        *)
(*    compared by cross-multiplication, which is exact on the integers     *)
(*    the model draws.                                                     *)
(*  - An absent optional field of a pair (`pair.x?.y || 0`) is the value   *)
(*    0, which is what `|| 0` makes of undefined, NaN and 0 alike.         *)
(*  - Time is counted in minutes; pairCreatedAt and Date.now() are both    *)
(*    minutes, so ageMinutes = now - pairCreatedAt.                        *)
(***************************************************************************)
EXTENDS Integers, Sequences, FiniteSets, TLC

NONE == "none"

(***************************************************************************)
(* Bounds of the model                                                     *)
(***************************************************************************)
MaxPairs == 2        \* longest listing a fetch returns in the watcher model
MaxElapsed == 1      \* minutes that may pass between the fetch and a direct call

(***************************************************************************)
(* Filter presets (autopost-service.ts:985-1015).  minBuySellRatio is in   *)
(* tenths (0.3 -> 3, 0.8 -> 8).                                            *)
(***************************************************************************)
DEFAULT_GRADUATION_FILTER ==
  [ name |-> "default", minLiquidity |-> 8000, minVolume5m |-> 200,
    minHolders |-> 75, maxAgeMinutes |-> 60,
    minLiquidityRatio |-> 8, minBuySellRatio |-> 3 ]

AGGRESSIVE_GRADUATION_FILTER ==
  [ name |-> "aggressive", minLiquidity |-> 8000, minVolume5m |-> 500,
    minHolders |-> 75, maxAgeMinutes |-> 20,
    minLiquidityRatio |-> 8, minBuySellRatio |-> 3 ]

CONSERVATIVE_GRADUATION_FILTER ==
  [ name |-> "conservative", minLiquidity |-> 20000, minVolume5m |-> 2000,
    minHolders |-> 150, maxAgeMinutes |-> 120,
    minLiquidityRatio |-> 15, minBuySellRatio |-> 8 ]

Filters ==
  { DEFAULT_GRADUATION_FILTER, AGGRESSIVE_GRADUATION_FILTER,
    CONSERVATIVE_GRADUATION_FILTER }

(***************************************************************************)
(* A listing is what the upstream services answer for one token: the       *)
(* DexScreener pair record and the two Helius answers (0 = the call        *)
(* failed or the value is unknown).                                        *)
(***************************************************************************)
MkListing(mint, liq, mcap, v5, v1h, buys, sells, pc5, created, hc, thc, soc) ==
  [ mint |-> mint, liquidity |-> liq, marketCap |-> mcap,
    volM5 |-> v5, volH1 |-> v1h, buys |-> buys, sells |-> sells,
    priceChangeM5 |-> pc5, pairCreatedAt |-> created,
    holderCount |-> hc, topHolderConcentration |-> thc, socials |-> soc ]

Now0 == 200          \* Date.now() of the watcher model, in minutes

\* Single-pair listings over a product of magnitudes, from all-zero to
\* values far beyond every threshold.
WideListings ==
  { MkListing("m1", liq, mcap, vol[1], vol[2], tx[1], tx[2], pc5,
              Now0 - age, hc, thc, TRUE) :
      liq  \in {0, 4000, 25000, 60000},
      mcap \in {0, 100000, 500000, 20000000},
      vol  \in {<<0, 0>>, <<300, 12000>>, <<3000, 12000>>},
      tx   \in {<<0, 0>>, <<10, 0>>, <<10, 2>>, <<1, 10>>},
      pc5  \in {-25, 0, 25},
      age  \in {5, 90},
      hc   \in {0, 20, 250},
      thc  \in {0, 15, 85} }

\* Hand-picked listings with distinct mints, for fetches of several pairs.
\*   m1: the spec's scoring example (sums to 11);  m2: all inputs zero;
\*   m3: liquidity ratio exactly 8% at the default floor;
\*   m4: drained liquidity (2%), concentrated, no socials;
\*   m5: healthy but older than every preset's window;
\*   m6, m7: m3 with the liquidity ratio at 7.99% and at 8.01%
NarrowListings ==
  { MkListing("m1", 60000, 500000, 0, 0, 10, 2, 25, Now0 - 10, 250, 15, TRUE),
    MkListing("m2", 0, 0, 0, 0, 0, 0, 0, Now0 - 30, 0, 0, FALSE),
    MkListing("m3", 8000, 100000, 300, 2000, 10, 10, 15, Now0 - 30, 80, 40, TRUE),
    MkListing("m4", 4000, 200000, 300, 12000, 1, 10, -25, Now0 - 5, 20, 85, FALSE),
    MkListing("m5", 25000, 150000, 3000, 12000, 10, 0, 0, Now0 - 150, 150, 30, TRUE),
    MkListing("m6", 7990, 100000, 300, 2000, 10, 10, 15, Now0 - 30, 80, 40, TRUE),
    MkListing("m7", 8010, 100000, 300, 2000, 10, 10, 15, Now0 - 30, 80, 40, TRUE) }

RECURSIVE DistinctMints(_)
DistinctMints(s) ==
  IF Len(s) <= 1 THEN TRUE
  ELSE /\ \A i \in 2..Len(s) : s[i].mint # s[1].mint
       /\ DistinctMints(Tail(s))

SeqsUpTo(S, n) == UNION { [1..k -> S] : k \in 0..n }

\* What a listing fetch can answer: one pair of any magnitude, or up to
\* MaxPairs hand-picked pairs (deduplicated by base-token address, as both
\* provider fetches leave them).
Markets ==
  { <<l>> : l \in WideListings } \cup
  { s \in SeqsUpTo(NarrowListings, MaxPairs) : DistinctMints(s) }

(***************************************************************************)
(* DexScreenerProvider.pairToMetrics: holders and topHolderConcentration   *)
(* start at 0; tokenAgeHours is kept in minutes (hours * 60).              *)
(***************************************************************************)
pairToMetricsNoLpAge(pair, t) ==
  [ mint |-> pair.mint,
    liquidity |-> pair.liquidity,
    holders |-> 0,
    topHolderConcentration |-> 0,
    tokenAgeHours |-> t - pair.pairCreatedAt,
    lpAge |-> 0 ]

pairToMetrics(pair, t) ==
  [ mint |-> pair.mint,
    liquidity |-> pair.liquidity,
    holders |-> 0,
    topHolderConcentration |-> 0,
    tokenAgeHours |-> t - pair.pairCreatedAt,
    lpAge |-> t - pair.pairCreatedAt ]

(***************************************************************************)
(* GraduationWatcher.applyFilter.  A failure message is kept as the rule   *)
(* it reports with the measured value and the threshold it prints.         *)
(***************************************************************************)
Fail(rule, measured, threshold) ==
  [ rule |-> rule, measured |-> measured, threshold |-> threshold ]

OrDefault(v, d) == IF v = 0 THEN d ELSE v      \* JavaScript `v || d`

HoldersRuleFailsNoGuard(metrics, filter) ==
  metrics.holders < filter.minHolders

\* metrics.holders > 0 && metrics.holders < filter.minHolders
HoldersRuleFails(metrics, filter) ==
  metrics.holders > 0 /\ metrics.holders < filter.minHolders

LiqRatioRuleFailsAtFloor(liq, mcap, minLiqRatio) ==
  mcap > 0 /\ liq > 0 /\ liq * 100 <= minLiqRatio * mcap

\* mcap > 0 && liq > 0 && (liq / mcap) * 100 < minLiqRatio
LiqRatioRuleFails(liq, mcap, minLiqRatio) ==
  mcap > 0 /\ liq > 0 /\ liq * 100 < minLiqRatio * mcap

ConcentrationRuleFailsByPolicy(metrics, filter) ==
  filter.name # "aggressive" /\ metrics.topHolderConcentration > 50

\* metrics.topHolderConcentration > 50
ConcentrationRuleFails(metrics, filter) ==
  metrics.topHolderConcentration > 50

applyFilter(pair, metrics, filter, t) ==
  LET ageMinutes == t - pair.pairCreatedAt
      mcap == pair.marketCap
      liq == pair.liquidity
      minLiqRatio == OrDefault(filter.minLiquidityRatio, 8)
      minBuySellRatio == OrDefault(filter.minBuySellRatio, 3)
      f1 == IF pair.liquidity < filter.minLiquidity
            THEN <<Fail("Liquidity", pair.liquidity, filter.minLiquidity)>>
            ELSE <<>>
      f2 == IF pair.volM5 < filter.minVolume5m
            THEN <<Fail("5m volume", pair.volM5, filter.minVolume5m)>>
            ELSE <<>>
      f3 == IF ageMinutes > filter.maxAgeMinutes
            THEN <<Fail("Age", ageMinutes, filter.maxAgeMinutes)>>
            ELSE <<>>
      f4 == IF HoldersRuleFails(metrics, filter)
            THEN <<Fail("Holders", metrics.holders, filter.minHolders)>>
            ELSE <<>>
      f5 == IF ConcentrationRuleFails(metrics, filter)
            THEN <<Fail("Top 10 holders", metrics.topHolderConcentration, 50)>>
            ELSE <<>>
      f6 == IF LiqRatioRuleFails(liq, mcap, minLiqRatio)
            THEN <<Fail("Liq/MCap", (liq * 100) \div mcap, minLiqRatio)>>
            ELSE <<>>
      f7 == IF pair.sells > 0 /\ pair.buys * 10 < minBuySellRatio * pair.sells
            THEN <<Fail("Buy/Sell ratio", pair.buys, minBuySellRatio)>>
            ELSE <<>>
      f8 == IF mcap > 5000000 /\ ageMinutes < 15 /\ pair.volH1 * 10 < mcap
            THEN <<Fail("MCap wash trading", mcap \div 1000, pair.volH1)>>
            ELSE <<>>
      failures == f1 \o f2 \o f3 \o f4 \o f5 \o f6 \o f7 \o f8
  IN [ passes |-> (Len(failures) = 0), failures |-> failures ]

(***************************************************************************)
(* GraduationWatcher.calculateScore, in half points.                       *)
(***************************************************************************)
NoClamp(score) == score

\* Math.max(0, Math.min(10, score))
ClampScore(score) ==
  IF score > 20 THEN 20 ELSE IF score < 0 THEN 0 ELSE score

LiquidityTierKnownOnly(liq) ==
  IF liq > 50000 THEN 2
  ELSE IF liq > 20000 THEN 1
  ELSE IF liq < 5000 /\ liq > 0 THEN -2
  ELSE 0

\* Liquidity health: > 50000 +1, > 20000 +0.5, < 5000 -1
LiquidityTier(liq) ==
  IF liq > 50000 THEN 2
  ELSE IF liq > 20000 THEN 1
  ELSE IF liq < 5000 THEN -2
  ELSE 0

rawScore(pair, metrics) ==
  LET vol5m == pair.volM5
      volH1 == pair.volH1          \* vol1hAvg = volH1 / 12
      sVolume ==
        IF vol5m * 6 > volH1 THEN 3
        ELSE IF vol5m * 8 > volH1 THEN 2
        ELSE IF vol5m * 24 < volH1 THEN -2
        ELSE 0
      liq == pair.liquidity
      sLiquidity == LiquidityTier(liq)
      buys == pair.buys
      sells == pair.sells
      \* ratio = sells > 0 ? buys / sells : buys > 0 ? 2 : 1, as num/den
      num == IF sells > 0 THEN buys ELSE IF buys > 0 THEN 2 ELSE 1
      den == IF sells > 0 THEN sells ELSE 1
      sRatio ==
        IF num > 2 * den THEN 2
        ELSE IF 2 * num > 3 * den THEN 1
        ELSE IF 2 * num < den THEN -3
        ELSE 0
      pc == pair.priceChangeM5
      sPrice ==
        IF pc > 20 THEN 2
        ELSE IF pc > 10 THEN 1
        ELSE IF pc < -20 THEN -2
        ELSE 0
      mcap == pair.marketCap
      sMcap ==
        IF mcap > 100000 /\ mcap < 5000000 THEN 1
        ELSE IF mcap > 10000000 THEN -1
        ELSE 0
      sLiqRatio ==
        IF mcap > 0 /\ liq > 0
        THEN IF liq * 100 >= 20 * mcap THEN 4
             ELSE IF liq * 100 >= 15 * mcap THEN 3
             ELSE IF liq * 100 >= 10 * mcap THEN 1
             ELSE IF liq * 100 < 5 * mcap THEN -6
             ELSE IF liq * 100 < 8 * mcap THEN -4
             ELSE 0
        ELSE 0
      holders == metrics.holders
      sHolders ==
        IF holders > 200 THEN 2
        ELSE IF holders > 100 THEN 1
        ELSE IF holders < 30 /\ holders > 0 THEN -1
        ELSE 0
      concentration == metrics.topHolderConcentration
      sConcentration ==
        IF concentration > 0
        THEN IF concentration < 20 THEN 2
             ELSE IF concentration < 35 THEN 1
             ELSE IF concentration > 60 THEN -2
             ELSE IF concentration > 45 THEN -1
             ELSE 0
        ELSE 0
  IN 10 + sVolume + sLiquidity + sRatio + sPrice + sMcap
        + sLiqRatio + sHolders + sConcentration

calculateScore(pair, metrics) == ClampScore(rawScore(pair, metrics))

(***************************************************************************)
(* State                                                                   *)
(***************************************************************************)
VARIABLES
  market,       \* the listing the upstream services answer with
  filter,       \* the GraduationFilter a scan is called with
  now,          \* Date.now(), in minutes
  op,           \* the scan that produced `candidates` (NONE before any)
  candidates,   \* the GraduationCandidate[] the last scan returned
  call,         \* the last direct call of applyFilter or calculateScore
  enriched,     \* mints the last scan asked the holder indexer about, in order
  dexClock,     \* Date.now() as the DexScreenerProvider reads it, in seconds
  cache,        \* DexScreenerProvider.cache: key -> [data, timestamp]
  lastStored,   \* history: limit -> the entry a call with that limit last stored
  fetches,      \* the getLatestPumpFunGraduations invocations in flight
  answer,       \* how the invocation that settled last settled
  bot,          \* the webhook handler in flight, or how the last one ended
  service,      \* which scheduler runs: "telegram" or "discord" (NONE: neither)
  day,          \* the calendar day new Date().toDateString() names
  chats,        \* storage: recipient id -> its stored configuration
  callLogs,     \* storage: recipient id -> its call log
  seenTokens,   \* TelegramAutopostService.seenTokens, in insertion order
  intervalId,   \* the service's intervalId (0 = null)
  enabled,      \* the service's config.enabled
  timers,       \* the interval timers the runtime holds active
  timerSeq,     \* number of timers created so far (the next id is fresh)
  cyc           \* the scanAndNotify invocations: cycle -> its frame

\* The provider's variables and the webhook handler's
pvars == <<dexClock, cache, lastStored, fetches, answer, bot>>

wvars == <<market, filter, now, op, candidates, call, enriched, pvars>>

svars == <<service, day, chats, callLogs, seenTokens, intervalId, enabled,
           timers, timerSeq, cyc>>

vars == <<market, filter, now, op, candidates, call, enriched, dexClock, cache,
          lastStored, fetches, answer, bot, service, day, chats,
          callLogs, seenTokens, intervalId, enabled, timers, timerSeq, cyc>>

(***************************************************************************)
(* GraduationWatcher: the three scans                                      *)
(***************************************************************************)
Key(c, by) == IF by = "score" THEN c.score ELSE c.pair.pairCreatedAt

\* Array.prototype.sort with (a, b) => key(b) - key(a): descending, stable.
RECURSIVE InsertDesc(_, _, _)
InsertDesc(c, sorted, by) ==
  IF sorted = <<>> THEN <<c>>
  ELSE IF Key(Head(sorted), by) >= Key(c, by)
       THEN <<Head(sorted)>> \o InsertDesc(c, Tail(sorted), by)
       ELSE <<c>> \o sorted

RECURSIVE SortDesc(_, _)
SortDesc(s, by) ==
  IF s = <<>> THEN <<>>
  ELSE InsertDesc(s[Len(s)], SortDesc(SubSeq(s, 1, Len(s) - 1), by), by)

\* metrics.holders = holderCount || dflt, and the same for concentration
Enrich(metrics, listing, dfltHolders, dfltConcentration) ==
  [ metrics EXCEPT
      !.holders = OrDefault(listing.holderCount, dfltHolders),
      !.topHolderConcentration =
         OrDefault(listing.topHolderConcentration, dfltConcentration) ]

Candidate(pair, metrics, score, passes, failures) ==
  [ mint |-> pair.mint, pair |-> pair, metrics |-> metrics, score |-> score,
    passesFilter |-> passes, filterFailures |-> failures ]

RECURSIVE scanForGraduationsLoop(_, _, _)
scanForGraduationsLoop(pairs, f, t) ==
  IF pairs = <<>> THEN <<>>
  ELSE LET pair == Head(pairs)
           metrics == Enrich(pairToMetrics(pair, t), pair, 100, 25)
           r == applyFilter(pair, metrics, f, t)
           score == calculateScore(pair, metrics)
       IN <<Candidate(pair, metrics, score, r.passes, r.failures)>>
          \o scanForGraduationsLoop(Tail(pairs), f, t)

scanForGraduationsOnlyPassing(pairs, f, t) ==
  SortDesc(SelectSeq(scanForGraduationsLoop(pairs, f, t),
                     LAMBDA c : c.passesFilter), "score")

scanForGraduations(pairs, f, t) ==
  SortDesc(scanForGraduationsLoop(pairs, f, t), "score")

\* The holder-indexer calls of a scan that enriches every pair
enrichedAll(pairs) == [ i \in 1..Len(pairs) |-> pairs[i].mint ]

enrichedBeforeAgeCheck(pairs, maxAgeMinutes, t) == enrichedAll(pairs)

\* The holder-indexer calls of a scan that skips a pair older than
\* maxAgeMinutes before it enriches
enrichedYoung(pairs, maxAgeMinutes, t) ==
  enrichedAll(SelectSeq(pairs,
                        LAMBDA p : ~(t - p.pairCreatedAt > maxAgeMinutes)))

RECURSIVE scanFreshGraduationsLoop(_, _, _)
scanFreshGraduationsLoop(pairs, f, t) ==
  IF pairs = <<>> THEN <<>>
  ELSE LET pair == Head(pairs)
           ageMinutes == t - pair.pairCreatedAt
           metrics == Enrich(pairToMetrics(pair, t), pair, 100, 25)
           r == applyFilter(pair, metrics, f, t)
           score == calculateScore(pair, metrics)
           rest == scanFreshGraduationsLoop(Tail(pairs), f, t)
       IN IF ageMinutes > f.maxAgeMinutes THEN rest
          ELSE IF r.passes
               THEN <<Candidate(pair, metrics, score, TRUE, <<>>)>> \o rest
               ELSE rest

scanFreshGraduations(pairs, f, t) ==
  SortDesc(scanFreshGraduationsLoop(pairs, f, t), "created")

\* GraduationWatcher.generateWarnings: the badges, by their text
generateWarnings(pair, metrics) ==
  LET mcap == pair.marketCap
      liq == pair.liquidity
      \* liqRatio = mcap > 0 ? liq / mcap * 100 : 0
      ratioPos == mcap > 0 /\ liq > 0
      w1 == IF ratioPos /\ liq * 100 < 5 * mcap THEN <<"Liq drained (<5%)">>
            ELSE IF ratioPos /\ liq * 100 < 8 * mcap
                 THEN <<"Low liq ratio (<8%)">>
                 ELSE <<>>
      w2 == IF metrics.topHolderConcentration > 60 THEN <<"Top 10 hold >60%">>
            ELSE IF metrics.topHolderConcentration > 40
                 THEN <<"Top 10 hold >40%">>
                 ELSE <<>>
      w3 == IF pair.volM5 = 0 /\ pair.volH1 = 0 THEN <<"No volume">> ELSE <<>>
      w4 == IF pair.sells > 0 /\ pair.buys > 0
               /\ pair.buys * 10 < 3 * pair.sells
            THEN <<"Heavy sell pressure">> ELSE <<>>
      w5 == IF liq > 0 /\ liq < 5000 THEN <<"Low liq (<$5K)">> ELSE <<>>
      w6 == IF ~pair.socials THEN <<"No socials">> ELSE <<>>
  IN w1 \o w2 \o w3 \o w4 \o w5 \o w6

isAbsoluteScam(pair, metrics) ==
  LET mcap == pair.marketCap
      liq == pair.liquidity
  IN \/ (mcap > 0 /\ liq > 0 /\ liq * 100 < 3 * mcap)
     \/ metrics.topHolderConcentration > 80

RECURSIVE scanAllGraduationsLoop(_, _, _)
scanAllGraduationsLoop(pairs, maxAgeMinutes, t) ==
  IF pairs = <<>> THEN <<>>
  ELSE LET pair == Head(pairs)
           ageMinutes == t - pair.pairCreatedAt
           metrics == Enrich(pairToMetrics(pair, t), pair, 0, 0)
           warnings == generateWarnings(pair, metrics)
           score == calculateScore(pair, metrics)
           rest == scanAllGraduationsLoop(Tail(pairs), maxAgeMinutes, t)
       IN IF ageMinutes > maxAgeMinutes THEN rest
          ELSE <<Candidate(pair, metrics, score,
                           ~isAbsoluteScam(pair, metrics), warnings)>> \o rest

scanAllGraduations(pairs, maxAgeMinutes, t) ==
  SortDesc(scanAllGraduationsLoop(pairs, maxAgeMinutes, t), "created")

\* No update was received yet
NoHandler ==
  [ pc |-> "idle",
    update |-> [ kind |-> NONE, command |-> NONE, arg |-> NONE,
                 chatId |-> NONE, status |-> NONE ],
    isAdmin |-> FALSE,
    config |-> [id |-> NONE], reply |-> NONE ]

\* A DexScreenerProvider as constructed: an empty cache, nothing in flight;
\* the webhook has received nothing
NoProvider ==
  /\ dexClock = 0
  /\ cache = <<>>
  /\ lastStored = <<>>
  /\ fetches = <<>>
  /\ answer = [fn |-> NONE]
  /\ bot = NoHandler

\* The scheduler's variables where no scheduler runs
NoScheduler ==
  /\ service = NONE
  /\ day = 0
  /\ chats = <<>>
  /\ callLogs = <<>>
  /\ seenTokens = <<>>
  /\ intervalId = 0
  /\ enabled = FALSE
  /\ timers = {}
  /\ timerSeq = 0
  /\ cyc = <<>>

(***************************************************************************)
(* The watcher as a state machine: a caller runs one of the three scans    *)
(* on what the upstream answers.                                           *)
(***************************************************************************)
WatcherInit ==
  /\ market \in Markets
  /\ filter \in Filters
  /\ now = Now0
  /\ op = NONE
  /\ candidates = <<>>
  /\ call = [fn |-> NONE]
  /\ enriched = <<>>
  /\ NoProvider
  /\ NoScheduler

ScanForGraduations ==
  /\ candidates' = scanForGraduations(market, filter, now)
  /\ enriched' = enrichedAll(market)
  /\ op' = "scanForGraduations"
  /\ UNCHANGED <<market, filter, now, call, pvars, svars>>

ScanFreshGraduations ==
  /\ candidates' = scanFreshGraduations(market, filter, now)
  /\ enriched' = enrichedYoung(market, filter.maxAgeMinutes, now)
  /\ op' = "scanFreshGraduations"
  /\ UNCHANGED <<market, filter, now, call, pvars, svars>>

ScanAllGraduations ==
  /\ candidates' = scanAllGraduations(market, filter.maxAgeMinutes, now)
  /\ enriched' = enrichedYoung(market, filter.maxAgeMinutes, now)
  /\ op' = "scanAllGraduations"
  /\ UNCHANGED <<market, filter, now, call, pvars, svars>>

\* The metrics argument of a direct call: the first listing's holder data
\* as they are, 0 (unknown) included.
directMetrics == Enrich(pairToMetrics(market[1], now), market[1], 0, 0)

ApplyFilter ==
  /\ market # <<>>
  /\ call' = [ fn |-> "applyFilter", pair |-> market[1],
               metrics |-> directMetrics, filter |-> filter,
               result |-> applyFilter(market[1], directMetrics, filter, now) ]
  /\ UNCHANGED <<market, filter, now, op, candidates, enriched, pvars, svars>>

CalculateScore ==
  /\ market # <<>>
  /\ call' = [ fn |-> "calculateScore", pair |-> market[1],
               metrics |-> directMetrics,
               result |-> calculateScore(market[1], directMetrics) ]
  /\ UNCHANGED <<market, filter, now, op, candidates, enriched, pvars, svars>>

\* A direct call of pairToMetrics on the first listing, made when Date.now()
\* reads `now + elapsed`; the call before it, if it was one of pairToMetrics
\* too, is kept beside it.
PairToMetrics ==
  /\ market # <<>>
  /\ \E elapsed \in 0..MaxElapsed :
       call' = [ fn |-> "pairToMetrics", pair |-> market[1],
                 at |-> now + elapsed,
                 result |-> pairToMetrics(market[1], now + elapsed),
                 before |-> IF call.fn = "pairToMetrics"
                            THEN << [ at |-> call.at, result |-> call.result ] >>
                            ELSE <<>> ]
  /\ UNCHANGED <<market, filter, now, op, candidates, enriched, pvars, svars>>

WatcherNext ==
  \/ ScanForGraduations
  \/ ScanFreshGraduations
  \/ ScanAllGraduations
  \/ ApplyFilter
  \/ CalculateScore

SpecWatcher == WatcherInit /\ [][WatcherNext]_vars

\* The metrics mapper on its own: a caller maps the same pair again and again
MapperNext == PairToMetrics

SpecMapper == WatcherInit /\ [][MapperNext]_vars

(***************************************************************************)
(* The autopost schedulers                                                 *)
(*                                                                         *)
(* scanAndNotify is an async function: each action below is one of its     *)
(* segments, from the resolution of one await to the next await.  Several  *)
(* invocations may be in flight at once; they interleave at the awaits.    *)
(* The head of the recipient loop is a step of its own because it reads    *)
(* the clock; it touches nothing shared.                                   *)
(***************************************************************************)
MaxCycles == 2       \* scanAndNotify invocations in one behaviour
MaxOverlap == 2      \* invocations in flight at once

UNDEF == 0 - 1       \* an undefined quietHoursStart / quietHoursEnd / hour

SEEN_LIMIT == 500    \* part_001:125
LOG_LIMIT == 100     \* telegram-storage.ts:139
LOG_FETCH == 100     \* part_001:149, getCallLogs(chat.chatId, 100)
MIN_SCORE == 13      \* DEFAULT_CONFIG.minScore = 6.5, in half points

Cycles == 1..MaxCycles
Recipients == <<"c1", "c2">>     \* in the storage's iteration order
Hours == {2, 6, 12, 22, 23}
QuietConfigs == { <<UNDEF, UNDEF>>, <<22, UNDEF>>, <<22, 6>>, <<6, 22>>, <<5, 5>> }
SendOutcomes == {"ok", "apiError", "networkError"}

\* What DexScreener and Helius answer during a scheduler cycle:
\*   a1 passes the default filter and scores 10;  a2 passes and scores 7.5;
\*   a3 scores 10 but is too old;                 a4 passes and scores 6
SchedulerListings ==
  << MkListing("a1", 60000, 300000, 3000, 12000, 10, 2, 25, Now0 - 10, 250, 15, TRUE),
     MkListing("a2", 25000, 200000, 300, 2000, 10, 10, 0, Now0 - 30, 80, 40, TRUE),
     MkListing("a3", 60000, 300000, 3000, 12000, 10, 2, 25, Now0 - 90, 250, 15, TRUE),
     MkListing("a4", 8000, 100000, 300, 2000, 10, 10, 0, Now0 - 30, 80, 40, TRUE) >>

SelectMints(S) == SelectSeq(SchedulerListings, LAMBDA l : l.mint \in S)

Fetches == { SelectMints(S) : S \in SUBSET { "a1", "a2", "a3", "a4" } }

\* What the listing fetch of a cycle answers: the listing `market` where the
\* upstream has one, otherwise any selection of SchedulerListings
CycleFetches == IF market # <<>> THEN {market} ELSE Fetches

maxCallsPerHour == 10    \* DEFAULT_RATE_LIMITS, telegram-storage.ts:555

\* A busy hour upstream: one more fresh pair than maxCallsPerHour, each of
\* which passes the default filter and scores 10
BurstMints ==
  << "b01", "b02", "b03", "b04", "b05", "b06", "b07", "b08", "b09", "b10",
     "b11" >>

BurstListings ==
  [ i \in 1..Len(BurstMints) |->
      MkListing(BurstMints[i], 60000, 300000, 3000, 12000, 10, 2, 25,
                Now0 - 10, 250, 15, TRUE) ]

Min(a, b) == IF a < b THEN a ELSE b

\* A recipient's configuration (TelegramChatConfig / GuildConfig), by the
\* fields the schedulers read and write.
Config(id, quiet, maxCalls, displayMin, minConfidence) ==
  [ id |-> id, autopostEnabled |-> TRUE, channelId |-> TRUE,
    maxCallsPerDay |-> maxCalls,
    displayMinScore |-> displayMin, minConfidenceScore |-> minConfidence,
    quietHoursStart |-> quiet[1], quietHoursEnd |-> quiet[2],
    callCount |-> 0, lastCallAt |-> UNDEF,
    preset |-> "momentum", vibeMode |-> "neutral" ]

\* The isQuietHours call of the frame's last step, if it made one: the
\* recipient (and its place in the loop), the window, the hour read and the
\* answer.
NoCheck ==
  [ id |-> NONE, ci |-> 0, start |-> UNDEF, end |-> UNDEF, hour |-> UNDEF,
    quiet |-> FALSE ]

QuietCheck(chat, ci, hour, quiet) ==
  [ id |-> chat.id, ci |-> ci, start |-> chat.quietHoursStart,
    end |-> chat.quietHoursEnd, hour |-> hour, quiet |-> quiet ]

IdleFrame ==
  [ pc |-> "idle", chats |-> <<>>, highPotential |-> <<>>, ci |-> 0,
    today |-> 0, logs |-> <<>>, chatCandidates |-> <<>>, ki |-> 0,
    sent |-> 0, createdAt |-> 0, check |-> NoCheck, seenAtStart |-> {} ]

\* A finished invocation: start() and the timer callback drop the value
\* scanAndNotify returns, so the frame keeps none of it.
DoneFrame(f) == [ IdleFrame EXCEPT !.pc = "done" ]

\* An exception that leaves scanAndNotify rejects its promise.
RejectedFrame(f) == [ IdleFrame EXCEPT !.pc = "rejected" ]

InFlight == { k \in Cycles : cyc[k].pc \notin {"idle", "done", "rejected"} }

CanBegin ==
  /\ \E k \in Cycles : cyc[k].pc = "idle"
  /\ Cardinality(InFlight) < MaxOverlap

NextSlot == CHOOSE k \in Cycles :
              cyc[k].pc = "idle" /\ \A j \in 1..(k - 1) : cyc[j].pc # "idle"

\* The mints the upstream can list that are in the seen-set
SeenOfUpstream ==
  { m \in { SchedulerListings[i].mint : i \in 1..Len(SchedulerListings) }
           \cup { market[i].mint : i \in 1..Len(market) } :
      \E i \in 1..Len(seenTokens) : seenTokens[i] = m }

\* scanAndNotify up to its first await (the storage read); the frame notes
\* which mints the seen-set held when the invocation began
BeginCycle ==
  [ cyc EXCEPT ![NextSlot].pc = "getRecipients",
               ![NextSlot].seenAtStart = SeenOfUpstream ]

\* The service is constructed over a storage that holds two recipients with
\* autopost on.  c1 got one call the day before (day 0); behaviours stay
\* within day 1.
SchedulerInitSeen(svc, seen) ==
  /\ service = svc
  /\ day = 1
  /\ \E q \in QuietConfigs :
       chats = [ id \in {"c1", "c2"} |->
                   IF id = "c1"
                   THEN [ Config("c1", q, 1, 0, 13) EXCEPT
                            !.callCount = 1, !.lastCallAt = 0 ]
                   ELSE Config("c2", <<UNDEF, UNDEF>>, 2, 16, 13) ]
  /\ callLogs = [ id \in {"c1", "c2"} |->
                    IF id = "c1" THEN << [ mint |-> "a0", createdAt |-> 0,
                                            minute |-> Now0 - 1440 ] >>
                    ELSE <<>> ]
  /\ seenTokens = seen
  /\ intervalId = 0
  /\ enabled = FALSE
  /\ timers = {}
  /\ timerSeq = 0
  /\ cyc = [ k \in Cycles |-> IdleFrame ]
  /\ market = <<>>
  /\ filter = DEFAULT_GRADUATION_FILTER
  /\ now = Now0
  /\ op = NONE
  /\ candidates = <<>>
  /\ call = [fn |-> NONE]
  /\ enriched = <<>>
  /\ NoProvider

(***************************************************************************)
(* start / stop / isRunning and the interval timer (both services)         *)
(***************************************************************************)
startWithoutGuard ==
  /\ CanBegin
  /\ enabled' = TRUE
  /\ timerSeq' = timerSeq + 1
  /\ intervalId' = timerSeq + 1
  /\ timers' = timers \cup {timerSeq + 1}
  /\ cyc' = BeginCycle
  /\ UNCHANGED <<service, day, chats, callLogs, seenTokens>>

\* start(): a no-op when intervalId is set; else setInterval and one
\* immediate scanAndNotify.
start ==
  IF intervalId # 0
  THEN UNCHANGED svars
  ELSE /\ CanBegin
       /\ enabled' = TRUE
       /\ timerSeq' = timerSeq + 1
       /\ intervalId' = timerSeq + 1
       /\ timers' = timers \cup {timerSeq + 1}
       /\ cyc' = BeginCycle
       /\ UNCHANGED <<service, day, chats, callLogs, seenTokens>>

keepInterval(active, id) == active

\* clearInterval(id)
clearInterval(active, id) == active \ {id}

\* stop(): clearInterval, intervalId = null, config.enabled = false
stop ==
  /\ timers' = (IF intervalId # 0 THEN clearInterval(timers, intervalId)
                ELSE timers)
  /\ intervalId' = 0
  /\ enabled' = FALSE
  /\ UNCHANGED <<service, day, chats, callLogs, seenTokens, timerSeq, cyc>>

isRunning == enabled /\ intervalId # 0

\* The runtime fires an active interval timer: () => this.scanAndNotify()
tick(t) ==
  /\ t \in timers
  /\ CanBegin
  /\ cyc' = BeginCycle
  /\ UNCHANGED <<service, day, chats, callLogs, seenTokens, intervalId,
                 enabled, timers, timerSeq>>

(***************************************************************************)
(* Helpers of both scanAndNotify                                           *)
(***************************************************************************)
isQuietHoursWrapAnd(chat, hour) ==
  IF chat.quietHoursStart = UNDEF THEN FALSE
  ELSE IF chat.quietHoursEnd = UNDEF THEN FALSE
  ELSE hour >= chat.quietHoursStart /\ hour < chat.quietHoursEnd

isQuietHours(chat, hour) ==
  IF chat.quietHoursStart = UNDEF THEN FALSE
  ELSE IF chat.quietHoursEnd = UNDEF THEN FALSE
  ELSE IF chat.quietHoursStart < chat.quietHoursEnd
       THEN hour >= chat.quietHoursStart /\ hour < chat.quietHoursEnd
       ELSE hour >= chat.quietHoursStart \/ hour < chat.quietHoursEnd

\* isQuietHours returns before reading the clock when a bound is undefined
HourRead(chat, hour) ==
  IF chat.quietHoursStart = UNDEF \/ chat.quietHoursEnd = UNDEF
  THEN UNDEF ELSE hour

\* logs.filter(log => new Date(log.createdAt).toDateString() === today).length
callsToday(logs, today) ==
  Len(SelectSeq(logs, LAMBDA log : log.createdAt = today))

alreadyPosted(logs, mint) == \E i \in 1..Len(logs) : logs[i].mint = mint

\* c.passesFilter && c.score >= this.config.minScore
passesScore(c) == c.passesFilter /\ c.score >= MIN_SCORE

Brief(c) == [ mint |-> c.mint, score |-> c.score, passesFilter |-> c.passesFilter ]

BriefAll(cs) == [ i \in 1..Len(cs) |-> Brief(cs[i]) ]

Mints(cs) == [ i \in 1..Len(cs) |-> cs[i].mint ]

\* The frame moves on to the next recipient of the loop.
NextRecipient(f) ==
  [ f EXCEPT !.pc = "recipientHead", !.ci = f.ci + 1, !.logs = <<>>,
             !.chatCandidates = <<>>, !.ki = 0 ]

SetFrame(k, f) == [ cyc EXCEPT ![k] = f ]

InSeq(s, x) == \E i \in 1..Len(s) : s[i] = x

(***************************************************************************)
(* The Telegram storage.  A config read from it is a value of its own      *)
(* (SupabaseTelegramStorage builds a fresh object from each row), and the  *)
(* call logs are kept newest first.  Every request is answered.            *)
(***************************************************************************)
\* select * from telegram_chats where autopost = true
getActiveChats ==
  SelectSeq([ i \in 1..Len(Recipients) |-> chats[Recipients[i]] ],
            LAMBDA c : c.autopostEnabled)

\* logs.slice(0, limit)
getCallLogs(logs, limit) == SubSeq(logs, 1, Min(limit, Len(logs)))

\* logs.unshift(log); if (logs.length > 100) logs.pop()
addCallLog(logs, log) ==
  LET grown == <<log>> \o logs
  IN IF Len(grown) > LOG_LIMIT THEN SubSeq(grown, 1, Len(grown) - 1)
     ELSE grown

\* upsert of the whole row, callCount and lastCallAt included
saveChatConfig(stored, config) == [ stored EXCEPT ![config.id] = config ]

(***************************************************************************)
(* TelegramAutopostService                                                 *)
(***************************************************************************)
sendTelegramMessageNoCatch(outcome) ==
  [ ok |-> (outcome = "ok"), threw |-> (outcome = "networkError") ]

\* Every failure (no token, an API error, a thrown fetch) is caught and
\* returned as { ok: false }.
sendTelegramMessage(outcome) ==
  [ ok |-> (outcome = "ok"), threw |-> FALSE ]

TrimSeenNewest(s) ==
  IF Len(s) > SEEN_LIMIT THEN SubSeq(s, 1, SEEN_LIMIT) ELSE s

\* The seen-set after the new mints are added and the oldest trimmed
TrimSeen(s) ==
  IF Len(s) > SEEN_LIMIT THEN SubSeq(s, Len(s) - SEEN_LIMIT + 1, Len(s))
  ELSE s

markSeenNever(seen, highPotential) == seen

\* highPotential.forEach(c => this.seenTokens.add(mint)), then the trim
markSeen(seen, highPotential) == TrimSeen(seen \o Mints(highPotential))

\* The candidate loop from index f.ki on: candidates already in the logs
\* read for this chat are skipped; it stops at the first send, or leaves
\* the loop for the next chat.
RECURSIVE SkipPosted(_)
SkipPosted(f) ==
  IF f.ki > Len(f.chatCandidates) THEN NextRecipient(f)
  ELSE IF alreadyPosted(f.logs, f.chatCandidates[f.ki].mint)
       THEN SkipPosted([ f EXCEPT !.ki = f.ki + 1 ])
       ELSE [ f EXCEPT !.pc = "send" ]

TgStart == service = "telegram" /\ start /\ UNCHANGED wvars

TgStop == service = "telegram" /\ stop /\ UNCHANGED wvars

TgTick(t) == service = "telegram" /\ tick(t) /\ UNCHANGED wvars

\* await storage.getActiveChats() resolves
TgGotActiveChats(k) ==
  /\ service = "telegram"
  /\ cyc[k].pc = "getRecipients"
  /\ LET f == cyc[k]
         active == getActiveChats
     IN cyc' = SetFrame(k, IF Len(active) = 0 THEN DoneFrame(f)
                           ELSE [ f EXCEPT !.pc = "scan", !.chats = active ])
  /\ UNCHANGED <<wvars, service, day, chats, callLogs, seenTokens,
                 intervalId, enabled, timers, timerSeq>>

\* await this.watcher.scanForGraduations(DEFAULT_GRADUATION_FILTER)
\* resolves; highPotential is computed and its mints are marked seen.
TgScanned(k) ==
  /\ service = "telegram"
  /\ cyc[k].pc = "scan"
  /\ \E fetch \in CycleFetches :
       LET f == cyc[k]
           found == BriefAll(scanForGraduations(fetch,
                                                DEFAULT_GRADUATION_FILTER, now))
           highPotential ==
             SelectSeq(found, LAMBDA c : ~InSeq(seenTokens, c.mint)
                                         /\ passesScore(c))
       IN /\ seenTokens' = markSeen(seenTokens, highPotential)
          /\ cyc' = SetFrame(k, [ f EXCEPT !.pc = "recipientHead",
                                           !.highPotential = highPotential,
                                           !.ci = 1 ])
  /\ UNCHANGED <<wvars, service, day, chats, callLogs, intervalId, enabled,
                 timers, timerSeq>>

\* for (const chat of chats): the quiet-hours check, then getCallLogs
TgChatHead(k) ==
  /\ service = "telegram"
  /\ cyc[k].pc = "recipientHead"
  /\ LET f == cyc[k]
     IN IF f.ci > Len(f.chats)
        THEN cyc' = SetFrame(k, DoneFrame(f))
        ELSE \E hour \in Hours :
               LET chat == f.chats[f.ci]
                   quiet == isQuietHours(chat, hour)
                   check == QuietCheck(chat, f.ci, HourRead(chat, hour), quiet)
               IN cyc' = SetFrame(k,
                    IF quiet
                    THEN [ NextRecipient(f) EXCEPT !.check = check ]
                    ELSE [ f EXCEPT !.pc = "getCallLogs", !.today = day,
                                    !.check = check ])
  /\ UNCHANGED <<wvars, service, day, chats, callLogs, seenTokens,
                 intervalId, enabled, timers, timerSeq>>

\* await storage.getCallLogs(chat.chatId, 100) resolves: the daily cap,
\* the chat's own minimum score, then the candidate loop up to its first send
TgGotCallLogs(k) ==
  /\ service = "telegram"
  /\ cyc[k].pc = "getCallLogs"
  /\ LET f == cyc[k]
         chat == f.chats[f.ci]
         logs == getCallLogs(callLogs[chat.id], LOG_FETCH)
         chatMinScore == OrDefault(chat.displayMinScore, chat.minConfidenceScore)
         chatCandidates ==
           SelectSeq(f.highPotential, LAMBDA c : c.score >= chatMinScore)
     IN cyc' = SetFrame(k,
          IF callsToday(logs, f.today) >= chat.maxCallsPerDay
          THEN NextRecipient([ f EXCEPT !.check = NoCheck ])
          ELSE IF Len(f.highPotential) = 0
          THEN NextRecipient([ f EXCEPT !.check = NoCheck ])
          ELSE SkipPosted([ f EXCEPT !.logs = logs, !.check = NoCheck,
                                     !.chatCandidates = chatCandidates,
                                     !.ki = 1 ]))
  /\ UNCHANGED <<wvars, service, day, chats, callLogs, seenTokens,
                 intervalId, enabled, timers, timerSeq>>

\* await this.sendTelegramMessage(...) resolves
TgSent(k) ==
  /\ service = "telegram"
  /\ cyc[k].pc = "send"
  /\ \E outcome \in SendOutcomes :
       LET f == cyc[k]
           result == sendTelegramMessage(outcome)
       IN cyc' = SetFrame(k,
            IF result.threw THEN RejectedFrame(f)
            ELSE IF result.ok
            THEN [ f EXCEPT !.sent = f.sent + 1, !.pc = "addCallLog",
                            !.createdAt = day ]
            ELSE [ f EXCEPT !.pc = "delay" ])
  /\ UNCHANGED <<wvars, service, day, chats, callLogs, seenTokens,
                 intervalId, enabled, timers, timerSeq>>

\* await storage.addCallLog(chat.chatId, callLog) resolves; then
\* chat.callCount++, chat.lastCallAt = new Date(), saveChatConfig(chat)
TgLogAdded(k) ==
  /\ service = "telegram"
  /\ cyc[k].pc = "addCallLog"
  /\ LET f == cyc[k]
         chat == f.chats[f.ci]
         callLog == [ mint |-> f.chatCandidates[f.ki].mint,
                      createdAt |-> f.createdAt, minute |-> now ]
     IN /\ callLogs' = [ callLogs EXCEPT
                           ![chat.id] = addCallLog(@, callLog) ]
        /\ cyc' = SetFrame(k,
             [ f EXCEPT !.pc = "saveChatConfig",
                        !.chats[f.ci].callCount = @ + 1,
                        !.chats[f.ci].lastCallAt = day ])
  /\ UNCHANGED <<wvars, service, day, chats, seenTokens, intervalId, enabled,
                 timers, timerSeq>>

\* await storage.saveChatConfig(chat) resolves
TgConfigSaved(k) ==
  /\ service = "telegram"
  /\ cyc[k].pc = "saveChatConfig"
  /\ chats' = saveChatConfig(chats, cyc[k].chats[cyc[k].ci])
  /\ cyc' = SetFrame(k, [ cyc[k] EXCEPT !.pc = "delay" ])
  /\ UNCHANGED <<wvars, service, day, callLogs, seenTokens, intervalId,
                 enabled, timers, timerSeq>>

\* await new Promise(r => setTimeout(r, 500)) resolves: next candidate
TgDelayed(k) ==
  /\ service = "telegram"
  /\ cyc[k].pc = "delay"
  /\ cyc' = SetFrame(k, SkipPosted([ cyc[k] EXCEPT !.ki = @ + 1 ]))
  /\ UNCHANGED <<wvars, service, day, chats, callLogs, seenTokens,
                 intervalId, enabled, timers, timerSeq>>

(***************************************************************************)
(* AutopostService (Discord).  Its storage module is not part of the       *)
(* sources at hand; it is taken as the key-value / append-only log store   *)
(* the Scheduler is specified against.                                     *)
(***************************************************************************)
\* storage.getAllGuilds()
getAllGuilds == [ i \in 1..Len(Recipients) |-> chats[Recipients[i]] ]

\* storage.addCallLog(guildId, log)
appendCallLog(logs, log) == Append(logs, log)

\* Every failure (no token, a non-2xx response, a thrown fetch) returns false.
sendDiscordMessage(outcome) ==
  [ ok |-> (outcome = "ok"), threw |-> FALSE ]

\* for (const candidate of highPotential) from index f.ki on
SendNext(f) ==
  IF f.ki > Len(f.chatCandidates) THEN NextRecipient(f)
  ELSE [ f EXCEPT !.pc = "send" ]

DcStart == service = "discord" /\ start /\ UNCHANGED wvars

DcStop == service = "discord" /\ stop /\ UNCHANGED wvars

DcTick(t) == service = "discord" /\ tick(t) /\ UNCHANGED wvars

\* await storage.getAllGuilds() resolves
DcGotAllGuilds(k) ==
  /\ service = "discord"
  /\ cyc[k].pc = "getRecipients"
  /\ cyc' = SetFrame(k, [ cyc[k] EXCEPT !.pc = "scan", !.chats = getAllGuilds ])
  /\ UNCHANGED <<wvars, service, day, chats, callLogs, seenTokens,
                 intervalId, enabled, timers, timerSeq>>

\* await this.watcher.scanForGraduations(DEFAULT_GRADUATION_FILTER) resolves
DcScanned(k) ==
  /\ service = "discord"
  /\ cyc[k].pc = "scan"
  /\ \E fetch \in CycleFetches :
       LET found == BriefAll(scanForGraduations(fetch,
                                                DEFAULT_GRADUATION_FILTER, now))
           highPotential == SelectSeq(found, passesScore)
       IN cyc' = SetFrame(k, [ cyc[k] EXCEPT !.pc = "recipientHead",
                                             !.highPotential = highPotential,
                                             !.ci = 1 ])
  /\ UNCHANGED <<wvars, service, day, chats, callLogs, seenTokens,
                 intervalId, enabled, timers, timerSeq>>

\* for (const guild of guilds): autopost flag, channel, quiet hours, then
\* getCallLogs
DcGuildHead(k) ==
  /\ service = "discord"
  /\ cyc[k].pc = "recipientHead"
  /\ LET f == cyc[k]
     IN IF f.ci > Len(f.chats)
        THEN cyc' = SetFrame(k, DoneFrame(f))
        ELSE LET guild == f.chats[f.ci]
             IN IF ~guild.autopostEnabled \/ ~guild.channelId
                THEN cyc' = SetFrame(k, NextRecipient(f))
                ELSE \E hour \in Hours :
                       LET quiet == isQuietHours(guild, hour)
                           check == QuietCheck(guild, f.ci,
                                               HourRead(guild, hour), quiet)
                       IN cyc' = SetFrame(k,
                            IF quiet
                            THEN [ NextRecipient(f) EXCEPT !.check = check ]
                            ELSE [ f EXCEPT !.pc = "getCallLogs",
                                            !.today = day, !.check = check ])
  /\ UNCHANGED <<wvars, service, day, chats, callLogs, seenTokens,
                 intervalId, enabled, timers, timerSeq>>

\* await storage.getCallLogs(guild.guildId) resolves: the daily cap, then
\* the first send
DcGotCallLogs(k) ==
  /\ service = "discord"
  /\ cyc[k].pc = "getCallLogs"
  /\ LET f == cyc[k]
         guild == f.chats[f.ci]
         allLogs == callLogs[guild.id]
     IN cyc' = SetFrame(k,
          IF callsToday(allLogs, f.today) >= guild.maxCallsPerDay
          THEN NextRecipient([ f EXCEPT !.check = NoCheck ])
          ELSE IF Len(f.highPotential) = 0
          THEN NextRecipient([ f EXCEPT !.check = NoCheck ])
          ELSE SendNext([ f EXCEPT !.check = NoCheck,
                                   !.chatCandidates = f.highPotential,
                                   !.ki = 1 ]))
  /\ UNCHANGED <<wvars, service, day, chats, callLogs, seenTokens,
                 intervalId, enabled, timers, timerSeq>>

\* await this.sendDiscordMessage(...) resolves
DcSent(k) ==
  /\ service = "discord"
  /\ cyc[k].pc = "send"
  /\ \E outcome \in SendOutcomes :
       LET f == cyc[k]
           result == sendDiscordMessage(outcome)
       IN cyc' = SetFrame(k,
            IF result.threw THEN RejectedFrame(f)
            ELSE IF result.ok
            THEN [ f EXCEPT !.sent = f.sent + 1, !.pc = "addCallLog",
                            !.createdAt = day ]
            ELSE SendNext([ f EXCEPT !.ki = @ + 1 ]))
  /\ UNCHANGED <<wvars, service, day, chats, callLogs, seenTokens,
                 intervalId, enabled, timers, timerSeq>>

\* await storage.addCallLog(guild.guildId, {...}) resolves: next candidate
DcLogAdded(k) ==
  /\ service = "discord"
  /\ cyc[k].pc = "addCallLog"
  /\ LET f == cyc[k]
         guild == f.chats[f.ci]
         callLog == [ mint |-> f.chatCandidates[f.ki].mint,
                      createdAt |-> f.createdAt, minute |-> now ]
     IN /\ callLogs' = [ callLogs EXCEPT
                           ![guild.id] = appendCallLog(@, callLog) ]
        /\ cyc' = SetFrame(k, SendNext([ f EXCEPT !.ki = @ + 1 ]))
  /\ UNCHANGED <<wvars, service, day, chats, seenTokens, intervalId, enabled,
                 timers, timerSeq>>

(***************************************************************************)
(* The schedulers as a state machine                                       *)
(***************************************************************************)
SchedulerInit(svc) == SchedulerInitSeen(svc, <<>>)

AutopostInit ==
  \E svc \in {"telegram", "discord"} : SchedulerInit(svc)

AutopostNext ==
  \/ TgStart
  \/ TgStop
  \/ \E t \in timers : TgTick(t)
  \/ \E k \in Cycles : TgGotActiveChats(k)
  \/ \E k \in Cycles : TgScanned(k)
  \/ \E k \in Cycles : TgChatHead(k)
  \/ \E k \in Cycles : TgGotCallLogs(k)
  \/ \E k \in Cycles : TgSent(k)
  \/ \E k \in Cycles : TgLogAdded(k)
  \/ \E k \in Cycles : TgConfigSaved(k)
  \/ \E k \in Cycles : TgDelayed(k)
  \/ DcStart
  \/ DcStop
  \/ \E t \in timers : DcTick(t)
  \/ \E k \in Cycles : DcGotAllGuilds(k)
  \/ \E k \in Cycles : DcScanned(k)
  \/ \E k \in Cycles : DcGuildHead(k)
  \/ \E k \in Cycles : DcGotCallLogs(k)
  \/ \E k \in Cycles : DcSent(k)
  \/ \E k \in Cycles : DcLogAdded(k)

SpecAutopost == AutopostInit /\ [][AutopostNext]_vars

\* The Telegram scheduler after a long run: the seen-set holds the mints of
\* earlier cycles, one short of SEEN_LIMIT or exactly SEEN_LIMIT of them,
\* oldest first; start() runs its one scanAndNotify.
SeenBefore(n) == [ i \in 1..n |-> "s" \o ToString(i) ]

LongRunInit ==
  \E n \in {SEEN_LIMIT - 1, SEEN_LIMIT} :
    SchedulerInitSeen("telegram", SeenBefore(n))

\* The Telegram scheduler in a busy hour: one chat with autopost on, the
\* documented 50 calls a day and no quiet hours; start() runs its one
\* scanAndNotify and the interval has not elapsed yet.
OneChatInit(listing, seen) ==
  /\ service = "telegram"
  /\ day = 1
  /\ chats = [ id \in {"c1", "c2"} |->
                IF id = "c1" THEN Config("c1", <<UNDEF, UNDEF>>, 50, 0, 13)
                ELSE [ Config("c2", <<UNDEF, UNDEF>>, 50, 0, 13) EXCEPT
                         !.autopostEnabled = FALSE ] ]
  /\ callLogs = [ id \in {"c1", "c2"} |-> <<>> ]
  /\ seenTokens = seen
  /\ intervalId = 0
  /\ enabled = FALSE
  /\ timers = {}
  /\ timerSeq = 0
  /\ cyc = [ k \in Cycles |-> IdleFrame ]
  /\ market = listing
  /\ filter = DEFAULT_GRADUATION_FILTER
  /\ now = Now0
  /\ op = NONE
  /\ candidates = <<>>
  /\ call = [fn |-> NONE]
  /\ enriched = <<>>
  /\ NoProvider

BurstInit == OneChatInit(BurstListings, <<>>)

\* The same chat after a long run during which mint a1 was the first of the
\* SEEN_LIMIT mints now in the seen-set
TrimInit == OneChatInit(<<>>, <<"a1">> \o SeenBefore(SEEN_LIMIT - 1))

TelegramNext ==
  \/ TgStart
  \/ TgStop
  \/ \E t \in timers : TgTick(t)
  \/ \E k \in Cycles : TgGotActiveChats(k)
  \/ \E k \in Cycles : TgScanned(k)
  \/ \E k \in Cycles : TgChatHead(k)
  \/ \E k \in Cycles : TgGotCallLogs(k)
  \/ \E k \in Cycles : TgSent(k)
  \/ \E k \in Cycles : TgLogAdded(k)
  \/ \E k \in Cycles : TgConfigSaved(k)
  \/ \E k \in Cycles : TgDelayed(k)

BurstNext ==
  \/ TgStart
  \/ \E k \in Cycles : TgGotActiveChats(k)
  \/ \E k \in Cycles : TgScanned(k)
  \/ \E k \in Cycles : TgChatHead(k)
  \/ \E k \in Cycles : TgGotCallLogs(k)
  \/ \E k \in Cycles : TgSent(k)
  \/ \E k \in Cycles : TgLogAdded(k)
  \/ \E k \in Cycles : TgConfigSaved(k)
  \/ \E k \in Cycles : TgDelayed(k)

SpecBurst == BurstInit /\ [][BurstNext]_vars

SpecLongRun == LongRunInit /\ [][BurstNext]_vars

SpecTrim == TrimInit /\ [][TelegramNext]_vars

(***************************************************************************)
(* DexScreenerProvider.getLatestPumpFunGraduations and its cache.  The     *)
(* clock is in seconds.  An invocation is a frame in `fetches`; each await *)
(* of a fetch is one action, taken when the upstream responds.             *)
(***************************************************************************)
MaxCalls == 2        \* invocations that may be in flight together
cacheTTL == 30       \* private cacheTTL = 30_000 (milliseconds)
Limits == {1, 3}     \* the `limit` arguments
Times == {0, 29, 30}    \* the readings of Date.now()
NoEntry == [data |-> <<>>, timestamp |-> 0 - 1]     \* Map.get: undefined

DexPair(mint, dexId, chainId, created) ==
  [ mint |-> mint, dexId |-> dexId, chainId |-> chainId,
    pairCreatedAt |-> created ]

\* The pairs /latest/dex/tokens lists for one token address
PairsOf(token) ==
  CASE token = "t1" -> << DexPair("t1", "raydium", "solana", 3),
                          DexPair("t1", "raydium", "solana", 5) >>
    [] token = "t2" -> << DexPair("t2", "orca", "solana", 7) >>
    [] token = "t3" -> << DexPair("t3", "raydium", "solana", 1) >>
    [] OTHER -> <<>>

\* The Solana token addresses /token-boosts/top/v1 can list
BoostAnswers == { <<>>, <<"t1", "t2">>, <<"t3">> }

\* The Solana token addresses /token-profiles/latest/v1 can list
ProfileAnswers == { <<>>, <<"t3">>, <<"t1", "t3">> }

\* A fetch resolves with a 2xx response, resolves with another status, or
\* rejects (network error) 
Outcomes == {"ok", "status", "network"}

RECURSIVE pairsFor(_)
pairsFor(tokens) ==
  IF tokens = <<>> THEN <<>>
  ELSE PairsOf(Head(tokens)) \o pairsFor(Tail(tokens))

\* Array.prototype.slice(0, n), n >= 0
Take(s, n) == SubSeq(s, 1, Min(n, Len(s)))

\* allPairs.filter: Raydium pairs on Solana, the first pair of each mint
RECURSIVE raydiumOnly(_, _)
raydiumOnly(allPairs, seenMints) ==
  IF allPairs = <<>> THEN <<>>
  ELSE LET pair == Head(allPairs)
       IN IF pair.dexId # "raydium" \/ pair.chainId # "solana"
             \/ pair.mint \in seenMints
          THEN raydiumOnly(Tail(allPairs), seenMints)
          ELSE <<pair>> \o raydiumOnly(Tail(allPairs),
                                       seenMints \cup {pair.mint})

\* raydiumPairs.sort((a, b) => b.pairCreatedAt - a.pairCreatedAt)
RECURSIVE InsertNewest(_, _)
InsertNewest(pair, sorted) ==
  IF sorted = <<>> THEN <<pair>>
  ELSE IF Head(sorted).pairCreatedAt >= pair.pairCreatedAt
       THEN <<Head(sorted)>> \o InsertNewest(pair, Tail(sorted))
       ELSE <<pair>> \o sorted

RECURSIVE SortNewest(_)
SortNewest(pairs) ==
  IF pairs = <<>> THEN <<>>
  ELSE InsertNewest(pairs[Len(pairs)],
                    SortNewest(SubSeq(pairs, 1, Len(pairs) - 1)))

\* What the method returns for the pairs it collected
raydiumPairs(allPairs, limit) ==
  Take(SortNewest(raydiumOnly(allPairs, {})), limit)

cacheKeyNoLimit(limit) == <<"pumpfun-graduations", 0>>

\* `pumpfun-graduations-${limit}`
cacheKey(limit) == <<"pumpfun-graduations", limit>>

MapGet(map, key) == IF key \in DOMAIN map THEN map[key] ELSE NoEntry

MapSet(map, key, value) ==
  [ k \in DOMAIN map \cup {key} |-> IF k = key THEN value ELSE map[k] ]

cacheFreshInclusive(cached, t) ==
  cached # NoEntry /\ t - cached.timestamp <= cacheTTL

\* cached && Date.now() - cached.timestamp < this.cacheTTL
cacheFresh(cached, t) ==
  cached # NoEntry /\ t - cached.timestamp < cacheTTL

RemoveAt(s, i) == SubSeq(s, 1, i - 1) \o SubSeq(s, i + 1, Len(s))

\* A frame: `primary` keeps allPairs as the token-boosts path left it and
\* `secondary` how the token-profiles fetch went (NONE: it was not made)
NewFetch(limit) ==
  [ limit |-> limit, pc |-> "boosts", allPairs |-> <<>>, tokens |-> <<>>,
    requests |-> 1, primary |-> <<>>, secondary |-> NONE ]

Settled(f, data, hit) ==
  [ fn |-> "getLatestPumpFunGraduations", limit |-> f.limit,
    outcome |-> "returned", data |-> data, hit |-> hit,
    requests |-> f.requests, primary |-> f.primary,
    secondary |-> f.secondary ]

nonProvider ==
  <<market, filter, now, op, candidates, call, enriched, bot, svars>>

\* The call itself, up to its first await: a fresh cache entry is returned
\* at once, otherwise the token-boosts fetch is issued.
GetLatestPumpFunGraduations(limit) ==
  LET cached == MapGet(cache, cacheKey(limit))
  IN /\ IF cacheFresh(cached, dexClock)
        THEN /\ answer' = Settled([ NewFetch(limit) EXCEPT !.requests = 0 ],
                                  cached.data, TRUE)
             /\ UNCHANGED fetches
        ELSE /\ Len(fetches) < MaxCalls
             /\ fetches' = Append(fetches, NewFetch(limit))
             /\ UNCHANGED answer
     /\ UNCHANGED <<dexClock, cache, lastStored, nonProvider>>

\* catch (error) { return []; }
CaughtOuter(i, f) ==
  /\ answer' = Settled(f, <<>>, FALSE)
  /\ fetches' = RemoveAt(fetches, i)
  /\ UNCHANGED <<cache, lastStored>>

\* The filter, the sort, cache.set and the return
Complete(i, f) ==
  LET data == raydiumPairs(f.allPairs, f.limit)
      entry == [ data |-> data, timestamp |-> dexClock ]
  IN /\ cache' = MapSet(cache, cacheKey(f.limit), entry)
     /\ lastStored' = MapSet(lastStored, f.limit, entry)
     /\ answer' = Settled(f, data, FALSE)
     /\ fetches' = RemoveAt(fetches, i)

\* if (allPairs.length < limit): the token-profiles fetch is issued
AfterPrimary(i, f0, allPairs) ==
  LET f == [ f0 EXCEPT !.allPairs = allPairs, !.primary = allPairs ]
  IN IF Len(allPairs) < f.limit
     THEN /\ fetches' = [ fetches EXCEPT
                            ![i] = [ f EXCEPT !.pc = "profiles",
                                              !.requests = @ + 1 ] ]
          /\ UNCHANGED <<cache, lastStored, answer>>
     ELSE Complete(i, f)

BoostsResponded(i) ==
  /\ i \in 1..Len(fetches)
  /\ fetches[i].pc = "boosts"
  /\ LET f == fetches[i]
     IN \E outcome \in Outcomes :
          CASE outcome = "network" -> CaughtOuter(i, f)
            [] outcome = "status" -> AfterPrimary(i, f, <<>>)
            [] outcome = "ok" ->
                 \E listed \in BoostAnswers :
                   LET solanaTokens == Take(listed, Min(f.limit, 20))
                   IN IF Len(solanaTokens) > 0
                      THEN /\ fetches' =
                                [ fetches EXCEPT
                                    ![i] = [ f EXCEPT !.pc = "boostPairs",
                                                      !.tokens = solanaTokens,
                                                      !.requests = @ + 1 ] ]
                           /\ UNCHANGED <<cache, lastStored, answer>>
                      ELSE AfterPrimary(i, f, <<>>)
  /\ UNCHANGED <<dexClock, nonProvider>>

BoostPairsResponded(i) ==
  /\ i \in 1..Len(fetches)
  /\ fetches[i].pc = "boostPairs"
  /\ LET f == fetches[i]
     IN \E outcome \in Outcomes :
          CASE outcome = "network" -> CaughtOuter(i, f)
            [] outcome = "status" -> AfterPrimary(i, f, f.allPairs)
            [] outcome = "ok" ->
                 AfterPrimary(i, f, f.allPairs \o pairsFor(f.tokens))
  /\ UNCHANGED <<dexClock, nonProvider>>

ProfilesResponded(i) ==
  /\ i \in 1..Len(fetches)
  /\ fetches[i].pc = "profiles"
  /\ LET f == fetches[i]
     IN \E outcome \in Outcomes :
          CASE outcome = "network" ->
                 CaughtOuter(i, [ f EXCEPT !.secondary = "network" ])
            [] outcome = "status" ->
                 Complete(i, [ f EXCEPT !.secondary = "status" ])
            [] outcome = "ok" ->
                 \E listed \in ProfileAnswers :
                   LET solanaProfiles ==
                         Take(listed, f.limit - Len(f.allPairs))
                       g == [ f EXCEPT !.secondary = "ok" ]
                   IN IF Len(solanaProfiles) > 0
                      THEN /\ fetches' =
                                [ fetches EXCEPT
                                    ![i] = [ g EXCEPT !.pc = "profilePairs",
                                                      !.tokens = solanaProfiles,
                                                      !.requests = @ + 1 ] ]
                           /\ UNCHANGED <<cache, lastStored, answer>>
                      ELSE Complete(i, g)
  /\ UNCHANGED <<dexClock, nonProvider>>

\* The batch fetch of the profile tokens has its own try / catch
ProfilePairsResponded(i) ==
  /\ i \in 1..Len(fetches)
  /\ fetches[i].pc = "profilePairs"
  /\ LET f == fetches[i]
     IN \E outcome \in Outcomes :
          IF outcome = "ok"
          THEN Complete(i, [ f EXCEPT !.allPairs = @ \o pairsFor(f.tokens) ])
          ELSE Complete(i, f)
  /\ UNCHANGED <<dexClock, nonProvider>>

\* Time passes
ClockAdvances ==
  /\ \E t \in Times : t > dexClock /\ dexClock' = t
  /\ UNCHANGED <<cache, lastStored, fetches, answer, nonProvider>>

ProviderInit ==
  /\ NoProvider
  /\ market = <<>>
  /\ filter = DEFAULT_GRADUATION_FILTER
  /\ now = Now0
  /\ op = NONE
  /\ candidates = <<>>
  /\ call = [fn |-> NONE]
  /\ enriched = <<>>
  /\ NoScheduler

ProviderNext ==
  \/ \E limit \in Limits : GetLatestPumpFunGraduations(limit)
  \/ \E i \in 1..MaxCalls : BoostsResponded(i)
  \/ \E i \in 1..MaxCalls : BoostPairsResponded(i)
  \/ \E i \in 1..MaxCalls : ProfilesResponded(i)
  \/ \E i \in 1..MaxCalls : ProfilePairsResponded(i)
  \/ ClockAdvances

SpecProvider == ProviderInit /\ [][ProviderNext]_vars

(***************************************************************************)
(* DexScreenerProvider.getLatestSolanaPairs, over the same cache Map       *)
(***************************************************************************)
\* The pages /latest/dex/pairs/solana can answer with, newest first
LatestAnswers ==
  { <<>>,
    << DexPair("t1", "raydium", "solana", 5), DexPair("t2", "orca", "solana", 7),
       DexPair("t1", "raydium", "solana", 3), DexPair("t3", "raydium", "solana", 1) >>,
    << DexPair("t4", "raydium", "ethereum", 9), DexPair("t3", "raydium", "solana", 8),
       DexPair("t1", "raydium", "solana", 5), DexPair("t5", "raydium", "solana", 2) >> }

\* const cacheKey = `latest-solana-pairs`
latestCacheKey(limit) == <<"latest-solana-pairs", 0>>

\* The page the cached entry was cut from is kept in lastStored under this key
LatestPage == "latest-solana-pairs"

SettledLatest(f, data, hit) ==
  [ Settled(f, data, hit) EXCEPT !.fn = "getLatestSolanaPairs" ]

\* The call up to its first await
GetLatestSolanaPairs(limit) ==
  LET cached == MapGet(cache, latestCacheKey(limit))
  IN /\ IF cacheFresh(cached, dexClock)
        THEN /\ answer' = SettledLatest([ NewFetch(limit) EXCEPT !.requests = 0 ],
                                        cached.data, TRUE)
             /\ UNCHANGED fetches
        ELSE /\ Len(fetches) < MaxCalls
             /\ fetches' = Append(fetches, [ NewFetch(limit) EXCEPT !.pc = "latest" ])
             /\ UNCHANGED answer
     /\ UNCHANGED <<dexClock, cache, lastStored, nonProvider>>

\* The fetch resolved or rejected: the filter, slice, cache.set and return
LatestResponded(i) ==
  /\ i \in 1..Len(fetches)
  /\ fetches[i].pc = "latest"
  /\ LET f == fetches[i]
     IN \E outcome \in Outcomes :
          IF outcome # "ok"
          THEN /\ answer' = SettledLatest(f, <<>>, FALSE)
               /\ UNCHANGED <<cache, lastStored>>
          ELSE \E pairs \in LatestAnswers :
                 LET result == Take(raydiumOnly(pairs, {}), f.limit)
                     t == dexClock
                 IN /\ cache' = MapSet(cache, latestCacheKey(f.limit),
                                       [ data |-> result, timestamp |-> t ])
                    /\ lastStored' = MapSet(lastStored, LatestPage,
                                            [ data |-> pairs, timestamp |-> t ])
                    /\ answer' = SettledLatest(f, result, FALSE)
  /\ fetches' = RemoveAt(fetches, i)
  /\ UNCHANGED <<dexClock, nonProvider>>

LatestNext ==
  \/ \E limit \in Limits : GetLatestSolanaPairs(limit)
  \/ \E i \in 1..MaxCalls : LatestResponded(i)
  \/ ClockAdvances

SpecLatest == ProviderInit /\ [][LatestNext]_vars

(***************************************************************************)
(* The Telegram webhook: handleMessage and handleCallbackQuery, by the     *)
(* commands and buttons that touch a chat's stored configuration.  One     *)
(* update is handled at a time; each await of the storage is one action.   *)
(***************************************************************************)
\* getChatMember: the sender's status in the chat (NONE: the call failed)
MemberStatuses == {"creator", "administrator", "member", NONE}

\* parseInt(args[0], 10): UNDEF stands for NaN
ScoreArgs == {UNDEF, 7, 11}

Message(command, arg, status) ==
  [ kind |-> "message", command |-> command, arg |-> arg, chatId |-> "c1",
    status |-> status ]

Callback(action, payload, status) ==
  [ kind |-> "callback", command |-> action, arg |-> payload, chatId |-> "c1",
    status |-> status ]

MessagesFrom(status) ==
  { Message(c, NONE, status) : c \in {"config", "policy", "mute", "unmute"} }
    \cup { Message("autopost", a, status) : a \in {"on", "off"} }
    \cup { Message("setrisk", n, status) : n \in ScoreArgs }

CallbacksFrom(status) ==
  { Callback("config", p, status) : p \in {"autopost", "vibe", "risk"} }
    \cup { Callback("policy", p, status) : p \in {"momentum", "fresh"} }
    \cup { Callback("setrisk", n, status) : n \in ScoreArgs }

Updates ==
  UNION { MessagesFrom(s) \cup CallbacksFrom(s) : s \in MemberStatuses }

isUserAdminAnyMember(status) == status # NONE

\* member.status === "creator" || member.status === "administrator"
isUserAdmin(status) ==
  status # NONE /\ status \in {"creator", "administrator"}

\* !isNaN(score) && score >= 1 && score <= 10
validScore(score) == score # UNDEF /\ score >= 1 /\ score <= 10

\* display.minScore = score; policy.thresholds.minConfidenceScore = score
\* (scores are kept in half points)
setMinScore(config, score) ==
  [ config EXCEPT !.displayMinScore = 2 * score,
                  !.minConfidenceScore = 2 * score ]

\* config.policy.autopostEnabled = !config.policy.autopostEnabled
toggleAutopost(config) ==
  [ config EXCEPT !.autopostEnabled = ~config.autopostEnabled ]

\* vibes[(vibes.indexOf(config.vibeMode) + 1) % vibes.length]
nextVibe(vibeMode) ==
  CASE vibeMode = "neutral" -> "aggressive"
    [] vibeMode = "aggressive" -> "cautious"
    [] OTHER -> "neutral"

\* createPolicy(chatId, preset) of the policies module: the thresholds of a
\* preset are whatever that module holds for it
PresetThresholds == {12, 14}

\* config.policy = { ...newPolicy, autopostEnabled: config.policy.autopostEnabled }
withPolicy(config, preset, minConfidence) ==
  [ config EXCEPT !.preset = preset, !.minConfidenceScore = minConfidence ]

\* The configurations the handler can come to save for the update, none
\* when the update only shows something
Changed(u, config) ==
  IF u.kind = "message"
  THEN CASE u.command = "setrisk" -> { setMinScore(config, u.arg) }
         [] u.command = "autopost" -> { toggleAutopost(config) }
         [] u.command \in {"mute", "unmute"} ->
              { [ config EXCEPT !.autopostEnabled = (u.command = "unmute") ] }
         [] OTHER -> {}
  ELSE CASE u.command = "config" /\ u.arg = "autopost" ->
              { toggleAutopost(config) }
         [] u.command = "config" /\ u.arg = "vibe" ->
              { [ config EXCEPT !.vibeMode = nextVibe(config.vibeMode) ] }
         [] u.command = "policy" ->
              { withPolicy(config, u.arg, t) : t \in PresetThresholds }
         [] u.command = "setrisk" -> { setMinScore(config, u.arg) }
         [] OTHER -> {}

Ended(h, reply) == [ h EXCEPT !.pc = "done", !.reply = reply ]

\* POST: the update is parsed, isUserAdmin is awaited and the switch is
\* entered, up to the handler's first read of the storage
UpdateReceived(u) ==
  /\ service = "telegram"
  /\ bot.pc \in {"idle", "done"}
  /\ LET isAdmin == isUserAdmin(u.status)
         h == [ NoHandler EXCEPT !.update = u, !.isAdmin = isAdmin ]
     IN bot' = IF ~isAdmin THEN Ended(h, "Admin only")
               ELSE IF u.command = "setrisk" /\ ~validScore(u.arg)
               THEN Ended(h, "usage")
               ELSE [ h EXCEPT !.pc = "getOrCreateChatConfig" ]
  /\ UNCHANGED <<market, filter, now, op, candidates, call, enriched,
                 dexClock, cache, lastStored, fetches, answer, svars>>

\* getOrCreateChatConfig resolved with the stored row; the handler changes
\* its copy and calls saveChatConfig, or only shows the configuration
ChatConfigLoaded ==
  /\ bot.pc = "getOrCreateChatConfig"
  /\ LET config == chats[bot.update.chatId]
     IN IF Changed(bot.update, config) = {}
        THEN bot' = Ended([ bot EXCEPT !.config = config ], "shown")
        ELSE \E changed \in Changed(bot.update, config) :
               bot' = [ bot EXCEPT !.pc = "saveChatConfig", !.config = changed ]
  /\ UNCHANGED <<market, filter, now, op, candidates, call, enriched,
                 dexClock, cache, lastStored, fetches, answer, svars>>

\* await getTelegramStorage().saveChatConfig(config) resolved
ChatConfigSaved ==
  /\ bot.pc = "saveChatConfig"
  /\ chats' = saveChatConfig(chats, bot.config)
  /\ bot' = Ended(bot, "ok")
  /\ UNCHANGED <<market, filter, now, op, candidates, call, enriched,
                 dexClock, cache, lastStored, fetches, answer,
                 service, day, callLogs, seenTokens, intervalId, enabled,
                 timers, timerSeq, cyc>>

BotInit == OneChatInit(<<>>, <<>>)

BotNext ==
  \/ \E u \in Updates : UpdateReceived(u)
  \/ ChatConfigLoaded
  \/ ChatConfigSaved

SpecBot == BotInit /\ [][BotNext]_vars

\* Admin commands arrive while the Telegram scheduler runs over the same
\* storage; the upstream lists one qualifying pair
AdminChanges ==
  { Message("mute", NONE, "administrator"),
    Message("setrisk", 7, "administrator"),
    Callback("config", "vibe", "creator") }

RaceInit == OneChatInit(<<SchedulerListings[1]>>, <<>>)

RaceNext ==
  \/ BurstNext
  \/ \E u \in AdminChanges : UpdateReceived(u)
  \/ ChatConfigLoaded
  \/ ChatConfigSaved

SpecRace == RaceInit /\ [][RaceNext]_vars

(***************************************************************************)
(* Properties of the watcher                                               *)
(***************************************************************************)
Range(s) == { s[i] : i \in 1..Len(s) }

\* C4: the score calculateScore returns, and so the score of every
\* candidate a scan returns, lies in [0, 10] (0..20 half points), whatever
\* the magnitudes of the inputs.
C4_ScoreClamped ==
  /\ \A c \in Range(candidates) : c.score \in 0..20
  /\ call.fn = "calculateScore" => call.result \in 0..20

\* calculateScore was applied to inputs whose adjustments sum below 0
C4_Witness ==
  /\ call.fn = "calculateScore"
  /\ rawScore(call.pair, call.metrics) < 0
  /\ call.result = 0

\* C5: for every candidate returned by any of the three scans,
\* passesFilter is true if and only if filterFailures is empty.
C5_PassesIffNoFailures ==
  \A c \in Range(candidates) : c.passesFilter <=> (c.filterFailures = <<>>)

\* C10: when metrics.holders = 0, applyFilter records no holder-count
\* failure, whatever the policy's minHolders.
C10_NoHolderFailureWhenUnknown ==
  (call.fn = "applyFilter" /\ call.metrics.holders = 0)
    => \A f \in Range(call.result.failures) : f.rule # "Holders"

\* applyFilter ran with holders = 0 and did record other failures
C10_Witness ==
  /\ call.fn = "applyFilter"
  /\ call.metrics.holders = 0
  /\ call.filter.minHolders = 150
  /\ call.result.failures # <<>>

(***************************************************************************)
(* Properties of the schedulers                                            *)
(***************************************************************************)
RecipientIds == { Recipients[i] : i \in 1..Len(Recipients) }

\* The event loop resumes invocation k at the await it is suspended on.
Resume(k) ==
  \/ TgGotActiveChats(k) \/ TgScanned(k) \/ TgChatHead(k) \/ TgGotCallLogs(k)
  \/ TgSent(k) \/ TgLogAdded(k) \/ TgConfigSaved(k) \/ TgDelayed(k)
  \/ DcGotAllGuilds(k) \/ DcScanned(k) \/ DcGuildHead(k) \/ DcGotCallLogs(k)
  \/ DcSent(k) \/ DcLogAdded(k)

\* Invocation k is suspended inside scanAndNotify before and after the step
Running(k) == k \in InFlight /\ cyc'[k].pc \notin {"idle", "done", "rejected"}

\* C1: in both schedulers no recipient's call log ever holds the same mint
\* twice, that is, for every (recipient, mint) at most one successful
\* dispatch occurs over any sequence of cycles.
C1_NoRepeatDispatch ==
  \A id \in RecipientIds :
    \A i, j \in 1..Len(callLogs[id]) :
      i # j => callLogs[id][i].mint # callLogs[id][j].mint

\* C2: the number of calls dispatched to a recipient in one day never
\* exceeds the recipient's maxCallsPerDay.
C2_DailyCap ==
  \A id \in RecipientIds :
    callsToday(callLogs[id], day) <= chats[id].maxCallsPerDay

\* C3: at most one scanAndNotify invocation is in progress at any time.
C3_OneCycleAtATime == Cardinality(InFlight) <= 1

\* The window of the specification: both bounds set, and the hour inside
\* [start, end), or inside the window that wraps midnight when start >= end.
QuietWindow(s, e, h) ==
  /\ s # UNDEF
  /\ e # UNDEF
  /\ \/ s < e /\ s <= h /\ h < e
     \/ s >= e /\ (h >= s \/ h < e)

C6_Answer ==
  \A k \in Cycles :
    LET c == cyc[k].check
    IN c.id # NONE =>
         /\ c.quiet <=> QuietWindow(c.start, c.end, c.hour)
         /\ (c.start = 22 /\ c.end = 6 /\ c.hour \in {23, 2}) => c.quiet
         /\ (c.start = 22 /\ c.end = 6 /\ c.hour = 12) => ~c.quiet
         /\ c.quiet => cyc[k].pc = "recipientHead" /\ cyc[k].ci = c.ci + 1
         /\ ~c.quiet => cyc[k].pc = "getCallLogs" /\ cyc[k].ci = c.ci

\* The recipient loop of an invocation never goes back to an earlier recipient
C6_NoReturn == \A k \in Cycles : Running(k) => cyc'[k].ci >= cyc[k].ci

\* C6: isQuietHours answers true exactly when both bounds are set and the
\* hour lies in the window (start <= h < end when start < end, h >= start or
\* h < end otherwise); with start 22 and end 6 it answers true at hours 23
\* and 2 and false at hour 12; and an invocation that finds a recipient in
\* quiet hours goes on to the next recipient and never returns to that one,
\* so it dispatches nothing to it.
C6_QuietHours == []C6_Answer /\ [][C6_NoReturn]_vars

\* A recipient with the window 22 -> 6 was found quiet at hour 23
C6_Witness ==
  \E k \in Cycles :
    /\ cyc[k].check.id # NONE
    /\ cyc[k].check.start = 22
    /\ cyc[k].check.end = 6
    /\ cyc[k].check.hour = 23
    /\ cyc[k].check.quiet

C7_NeverRejected ==
  \A k \in Cycles :
    /\ cyc[k].pc # "rejected"
    /\ k \in InFlight => ENABLED Resume(k)

\* The step in which a send of invocation k resolves as failed
C7_FailedSend(k) ==
  /\ cyc[k].pc = "send"
  /\ cyc'[k] # cyc[k]
  /\ cyc'[k].pc # "addCallLog"

C7_GoesOn ==
  \A k \in Cycles :
    /\ C7_FailedSend(k) =>
         /\ cyc'[k].chats = cyc[k].chats
         /\ cyc'[k].highPotential = cyc[k].highPotential
         /\ cyc'[k].sent = cyc[k].sent
         /\ \/ /\ cyc'[k].pc = "delay"
               /\ cyc'[k].ci = cyc[k].ci
               /\ cyc'[k].ki = cyc[k].ki
               /\ cyc'[k].chatCandidates = cyc[k].chatCandidates
            \/ /\ cyc'[k].pc = "send"
               /\ cyc'[k].ci = cyc[k].ci
               /\ cyc'[k].ki = cyc[k].ki + 1
               /\ cyc'[k].chatCandidates = cyc[k].chatCandidates
            \/ /\ cyc'[k].pc = "recipientHead"
               /\ cyc'[k].ci = cyc[k].ci + 1
               /\ cyc[k].ki = Len(cyc[k].chatCandidates)
    /\ (cyc[k].pc = "delay" /\ cyc'[k] # cyc[k]) =>
         \/ /\ cyc'[k].pc = "send"
            /\ cyc'[k].ci = cyc[k].ci
            /\ cyc'[k].ki > cyc[k].ki
            /\ \A i \in (cyc[k].ki + 1)..(cyc'[k].ki - 1) :
                 alreadyPosted(cyc[k].logs, cyc[k].chatCandidates[i].mint)
         \/ /\ cyc'[k].pc = "recipientHead"
            /\ cyc'[k].ci = cyc[k].ci + 1
            /\ \A i \in (cyc[k].ki + 1)..Len(cyc[k].chatCandidates) :
                 alreadyPosted(cyc[k].logs, cyc[k].chatCandidates[i].mint)
    /\ (cyc[k].pc # "done" /\ cyc'[k].pc = "done") =>
         \/ cyc[k].pc = "getRecipients"
         \/ cyc[k].pc = "recipientHead" /\ cyc[k].ci > Len(cyc[k].chats)

\* C7: a failed delivery never aborts the cycle: no invocation of
\* scanAndNotify is ever rejected or stuck; after a failed send the
\* invocation goes on with the next candidate of the same recipient, or
\* with the next recipient when none is left, having lost nothing of its
\* recipients and candidates; and it ends only when the recipient loop is
\* exhausted.
C7_FailureDoesNotAbort == []C7_NeverRejected /\ [][C7_GoesOn]_vars

\* The first candidate's delivery to a recipient failed and the second
\* one's then succeeded in the same invocation
C7_Witness ==
  \E k \in Cycles :
    /\ cyc[k].pc = "addCallLog"
    /\ cyc[k].ki = 2
    /\ cyc[k].sent = 1
    /\ ~alreadyPosted(cyc[k].logs, cyc[k].chatCandidates[1].mint)

C8_Stopped == intervalId = 0 => (timers = {} /\ ~isRunning)

\* A new invocation of scanAndNotify begins
C8_Begins == \E k \in Cycles : cyc[k].pc = "idle" /\ cyc'[k].pc # "idle"

C8_NoNewCycle ==
  /\ C8_Begins => intervalId' # 0
  /\ (intervalId # 0 /\ intervalId' = 0) => cyc' = cyc

\* C8: once stop() has returned and until start() is called again, no
\* interval timer is active, isRunning() is false and no new invocation of
\* scanAndNotify begins; stop() itself leaves the invocations in flight as
\* they are.
C8_StopIsClean == []C8_Stopped /\ [][C8_NoNewCycle]_vars

\* The service was stopped while an invocation is still in flight
C8_Witness ==
  /\ intervalId = 0
  /\ timerSeq > 0
  /\ ~isRunning
  /\ \E k \in Cycles : cyc[k].pc = "addCallLog"

\* C9: in TelegramAutopostService every successful delivery to a recipient
\* adds one CallLog entry and one to the recipient's stored callCount, so
\* that, whenever no invocation is in flight, the stored callCount of every
\* recipient equals the number of its call-log entries.
C9_CountMatchesLog ==
  (service = "telegram" /\ InFlight = {}) =>
    \A id \in RecipientIds : chats[id].callCount = Len(callLogs[id])

(***************************************************************************)
(* Properties of the filter engine and the scorer                          *)
(***************************************************************************)
\* applyFilter was called under the Default policy on a pair with market
\* cap 100000 and this liquidity
DefaultCallAt(liq) ==
  /\ call.fn = "applyFilter"
  /\ call.filter = DEFAULT_GRADUATION_FILTER
  /\ call.pair.marketCap = 100000
  /\ call.pair.liquidity = liq

HasFailure(failures, rule) == \E f \in Range(failures) : f.rule = rule

\* C11 as stated: at a liquidity ratio of exactly 8% (8000 / 100000) the
\* Default policy records a liquidity-ratio failure.
C11_FailsAtFloor ==
  DefaultCallAt(8000) => HasFailure(call.result.failures, "Liq/MCap")

\* C11, amended: the liquidity-ratio rule is a strict comparison, so under
\* the Default policy (floor 8) a ratio of exactly 8% does not fail it, a
\* ratio of 7.99% fails it and a ratio of 8.01% does not.
C11_StrictAtFloor ==
  /\ DefaultCallAt(8000) => ~HasFailure(call.result.failures, "Liq/MCap")
  /\ DefaultCallAt(7990) => HasFailure(call.result.failures, "Liq/MCap")
  /\ DefaultCallAt(8010) => ~HasFailure(call.result.failures, "Liq/MCap")

\* The Default policy was applied to the pair at exactly 8%
C11_Witness == DefaultCallAt(8000) /\ call.result.passes

(***************************************************************************)
(* The scoring table of the specification (section 4.4), factor by factor, *)
(* in half points.                                                         *)
(***************************************************************************)
TableVolume(pair) ==
  IF pair.volM5 * 12 > 2 * pair.volH1 THEN 3
  ELSE IF pair.volM5 * 24 > 3 * pair.volH1 THEN 2
  ELSE IF pair.volM5 * 24 < pair.volH1 THEN -2
  ELSE 0

TableLiquidity(pair) ==
  IF pair.liquidity > 50000 THEN 2
  ELSE IF pair.liquidity > 20000 THEN 1
  ELSE IF pair.liquidity < 5000 THEN -2
  ELSE 0

\* ratio = sells > 0 ? buys / sells : (buys > 0 ? 2 : 1)
TableBuySell(pair) ==
  IF pair.sells > 0
  THEN IF pair.buys > 2 * pair.sells THEN 2
       ELSE IF 2 * pair.buys > 3 * pair.sells THEN 1
       ELSE IF 2 * pair.buys < pair.sells THEN -3
       ELSE 0
  ELSE IF pair.buys > 0 THEN 1      \* ratio 2: not > 2, but > 1.5
  ELSE 0                            \* ratio 1

TablePrice(pair) ==
  IF pair.priceChangeM5 > 20 THEN 2
  ELSE IF pair.priceChangeM5 > 10 THEN 1
  ELSE IF pair.priceChangeM5 < -20 THEN -2
  ELSE 0

\* in [100k, 5M) +0.5; > 10M -0.5
TableMarketCap(pair) ==
  IF pair.marketCap >= 100000 /\ pair.marketCap < 5000000 THEN 1
  ELSE IF pair.marketCap > 10000000 THEN -1
  ELSE 0

TableLiqRatio(pair) ==
  IF pair.marketCap > 0 /\ pair.liquidity > 0
  THEN IF pair.liquidity * 100 >= 20 * pair.marketCap THEN 4
       ELSE IF pair.liquidity * 100 >= 15 * pair.marketCap THEN 3
       ELSE IF pair.liquidity * 100 >= 10 * pair.marketCap THEN 1
       ELSE IF pair.liquidity * 100 < 5 * pair.marketCap THEN -6
       ELSE IF pair.liquidity * 100 < 8 * pair.marketCap THEN -4
       ELSE 0
  ELSE 0

TableHolders(metrics) ==
  IF metrics.holders > 200 THEN 2
  ELSE IF metrics.holders > 100 THEN 1
  ELSE IF metrics.holders < 30 /\ metrics.holders > 0 THEN -1
  ELSE 0

TableConcentration(metrics) ==
  IF metrics.topHolderConcentration = 0 THEN 0
  ELSE IF metrics.topHolderConcentration < 20 THEN 2
  ELSE IF metrics.topHolderConcentration < 35 THEN 1
  ELSE IF metrics.topHolderConcentration > 60 THEN -2
  ELSE IF metrics.topHolderConcentration > 45 THEN -1
  ELSE 0

TableScore(pair, metrics) ==
  LET sum == 10 + TableVolume(pair) + TableLiquidity(pair) + TableBuySell(pair)
                + TablePrice(pair) + TableMarketCap(pair) + TableLiqRatio(pair)
                + TableHolders(metrics) + TableConcentration(metrics)
  IN IF sum > 20 THEN 20 ELSE IF sum < 0 THEN 0 ELSE sum

\* calculateScore was called on inputs that are all zero
AllZeroCall ==
  /\ call.fn = "calculateScore"
  /\ call.pair.volM5 = 0
  /\ call.pair.volH1 = 0
  /\ call.pair.liquidity = 0
  /\ call.pair.buys = 0
  /\ call.pair.sells = 0
  /\ call.pair.priceChangeM5 = 0
  /\ call.pair.marketCap = 0
  /\ call.metrics.holders = 0
  /\ call.metrics.topHolderConcentration = 0

\* C12 as stated: a candidate whose inputs are all zero scores exactly the
\* base value 5 (10 half points).
C12_AllZeroScoresBase == AllZeroCall => call.result = 10

\* C12, amended: a candidate whose inputs are all zero scores exactly 4:
\* the liquidity tier's "below 5000" branch fires (-1) and no other
\* scoring branch does.
C12_AllZeroScoresFour ==
  AllZeroCall =>
    /\ call.result = 8
    /\ TableLiquidity(call.pair) = 0 - 2
    /\ call.result = 10 + TableLiquidity(call.pair)

\* calculateScore ran on the all-zero candidate
C12_Witness == AllZeroCall /\ call.result = 8

\* The specification's worked example (volumes 0, liquidity 60000, 10 buys
\* against 2 sells, +25% in 5 minutes, market cap 500000, 250 holders,
\* top-holder concentration 15)
ExampleCall ==
  /\ call.fn = "calculateScore"
  /\ call.pair.volM5 = 0
  /\ call.pair.volH1 = 0
  /\ call.pair.liquidity = 60000
  /\ call.pair.buys = 10
  /\ call.pair.sells = 2
  /\ call.pair.priceChangeM5 = 25
  /\ call.pair.marketCap = 500000
  /\ call.metrics.holders = 250
  /\ call.metrics.topHolderConcentration = 15

\* C13: for every pair and metrics calculateScore equals the clamped sum of
\* base 5 and the eight adjustments of the specification's table, each
\* factor giving at most one adjustment; the worked example sums to 11 and
\* scores 10.
C13_ScoreIsTable ==
  /\ call.fn = "calculateScore" =>
       call.result = TableScore(call.pair, call.metrics)
  /\ ExampleCall => rawScore(call.pair, call.metrics) = 22 /\ call.result = 20

(***************************************************************************)
(* Properties of the metrics mapper                                        *)
(***************************************************************************)
\* pairToMetrics was called twice in a row on the same pair record
CalledTwice == call.fn = "pairToMetrics" /\ call.before # <<>>

\* C14 as stated: two calls of pairToMetrics on the same unchanged pair
\* yield TokenMetrics identical in every field, whenever they are made.
C14_SameMetrics == CalledTwice => call.result = call.before[1].result

\* C14, amended: two calls of pairToMetrics on the same unchanged pair
\* yield TokenMetrics identical in every field except tokenAgeHours and
\* lpAge, which are both the pair's age at the time of the call: they
\* differ between the two calls by the time that passed between them, and
\* are identical when the calls are made at the same instant.
C14_SameButAge ==
  CalledTwice =>
    LET a == call.before[1].result
        b == call.result
        passed == call.at - call.before[1].at
    IN /\ [ b EXCEPT !.tokenAgeHours = 0, !.lpAge = 0 ]
            = [ a EXCEPT !.tokenAgeHours = 0, !.lpAge = 0 ]
       /\ b.tokenAgeHours - a.tokenAgeHours = passed
       /\ b.lpAge - a.lpAge = passed
       /\ b.lpAge = b.tokenAgeHours
       /\ passed = 0 => b = a

\* The second call was made a minute after the first
C14_Witness ==
  /\ CalledTwice
  /\ call.at = call.before[1].at + 1
  /\ call.result # call.before[1].result

(***************************************************************************)
(* Properties of the three scans                                           *)
(***************************************************************************)
\* The hard-reject condition: 0 < liquidity/marketCap < 3%, or the top
\* holders own more than 80%
HardReject(c) ==
  \/ /\ c.pair.marketCap > 0
     /\ c.pair.liquidity > 0
     /\ c.pair.liquidity * 100 < 3 * c.pair.marketCap
  \/ c.metrics.topHolderConcentration > 80

AgeOf(pair) == now - pair.pairCreatedAt

\* C15: scanAllGraduations never returns a candidate that meets the
\* hard-reject condition, and returns every other fetched pair that is no
\* older than maxAgeMinutes, with its warnings attached.
C15_HardRejectExcluded ==
  op = "scanAllGraduations" =>
    /\ \A c \in Range(candidates) : ~HardReject(c)
    /\ \A p \in Range(market) :
         (AgeOf(p) <= filter.maxAgeMinutes
            /\ ~HardReject([ pair |-> p,
                             metrics |-> Enrich(pairToMetrics(p, now), p, 0, 0) ]))
         => \E c \in Range(candidates) :
              /\ c.pair = p
              /\ c.filterFailures = generateWarnings(c.pair, c.metrics)

\* C16: scanForGraduations returns exactly one candidate for every pair the
\* listing fetch returned, the pairs that fail the filter included, ordered
\* by non-increasing score.
C16_AllKeptByScore ==
  op = "scanForGraduations" =>
    /\ Len(candidates) = Len(market)
    /\ \A p \in Range(market) :
         Cardinality({ i \in 1..Len(candidates) : candidates[i].pair = p }) = 1
    /\ \A i \in 1..Len(candidates) :
         candidates[i].passesFilter
           = applyFilter(candidates[i].pair, candidates[i].metrics,
                         filter, now).passes
    /\ \A i, j \in 1..Len(candidates) :
         i < j => candidates[i].score >= candidates[j].score

\* A scan of two pairs returned both, the failing one included, with the
\* higher score first although it was fetched second
C16_Witness ==
  /\ op = "scanForGraduations"
  /\ Len(candidates) = 2
  /\ candidates[1].pair = market[2]
  /\ candidates[1].score > candidates[2].score
  /\ \E i \in 1..2 : ~candidates[i].passesFilter

\* C17: scanFreshGraduations returns only candidates whose pair passes
\* applyFilter under the policy and is no older than maxAgeMinutes, each
\* with passesFilter true and no filterFailures, ordered by non-increasing
\* pairCreatedAt; and the holder indexer is asked about every pair that is
\* no older than maxAgeMinutes and about no pair that is older.
C17_FreshOnlyPassing ==
  op = "scanFreshGraduations" =>
    /\ \A c \in Range(candidates) :
         /\ c.pair \in Range(market)
         /\ applyFilter(c.pair, c.metrics, filter, now).passes
         /\ AgeOf(c.pair) <= filter.maxAgeMinutes
         /\ c.passesFilter
         /\ c.filterFailures = <<>>
    /\ \A i, j \in 1..Len(candidates) :
         i < j => candidates[i].pair.pairCreatedAt
                    >= candidates[j].pair.pairCreatedAt
    /\ \A p \in Range(market) :
         /\ AgeOf(p) > filter.maxAgeMinutes => ~InSeq(enriched, p.mint)
         /\ AgeOf(p) <= filter.maxAgeMinutes => InSeq(enriched, p.mint)

\* A fresh scan fetched a pair that was too old next to one that passed
C17_Witness ==
  /\ op = "scanFreshGraduations"
  /\ Len(market) = 2
  /\ Len(candidates) = 1
  /\ Len(enriched) = 1
  /\ \E p \in Range(market) : AgeOf(p) > filter.maxAgeMinutes

(***************************************************************************)
(* Properties of getLatestPumpFunGraduations                               *)
(***************************************************************************)
SecondaryFailed == answer.secondary \in {"status", "network"}

\* C18: getLatestPumpFunGraduations never throws to its caller, and when
\* the token-profiles fetch fails, by a non-2xx response or by a network
\* error, it returns the deduplicated Raydium/Solana pairs collected from
\* the token-boosts path.
C18_KeepsPrimaryPairs ==
  answer.fn = "getLatestPumpFunGraduations" =>
    /\ answer.outcome = "returned"
    /\ SecondaryFailed =>
         answer.data = raydiumPairs(answer.primary, answer.limit)

\* The result a call with this limit last stored is younger than the TTL
StoredFresh(limit) ==
  /\ limit \in DOMAIN lastStored
  /\ dexClock - lastStored[limit].timestamp < cacheTTL

\* The step is a call of the method: it settles from the cache or it
\* leaves a new invocation waiting for the token-boosts fetch
ServedFromCache == answer' # answer /\ answer'.hit

WentUpstream == Len(fetches') > Len(fetches)

\* C19: a call made less than 30 seconds after a call with the same limit
\* stored its result returns that result and issues no upstream request; a
\* call made when no result for its limit is stored, or 30 seconds or more
\* after it was stored, fetches; results for different limits are kept
\* apart.
C19_CachePerLimit ==
  [][ /\ ServedFromCache =>
           /\ StoredFresh(answer'.limit)
           /\ answer'.data = lastStored[answer'.limit].data
           /\ answer'.requests = 0
           /\ fetches' = fetches
      /\ WentUpstream =>
           /\ ~StoredFresh(fetches'[Len(fetches')].limit)
           /\ fetches'[Len(fetches')].requests = 1
      /\ \A limit \in Limits :
           (limit \in DOMAIN lastStored /\ lastStored'[limit] = lastStored[limit])
             => MapGet(cache', cacheKey(limit)) = lastStored[limit]
    ]_vars

\* A call with limit 1 was served from a 29-second-old entry while a newer,
\* different result for limit 3 was in the cache
C19_Witness ==
  /\ answer.fn = "getLatestPumpFunGraduations"
  /\ answer.hit
  /\ answer.limit = 1
  /\ answer.data # <<>>
  /\ 1 \in DOMAIN lastStored /\ 3 \in DOMAIN lastStored
  /\ dexClock - lastStored[1].timestamp = 29
  /\ lastStored[3].timestamp > lastStored[1].timestamp
  /\ lastStored[3].data # lastStored[1].data

(***************************************************************************)
(* Properties of the documented rate limits                                *)
(***************************************************************************)
\* The calls a recipient's log holds that were posted less than an hour
\* (60 minutes) after its entry i, that entry included
PostedWithinHourOf(id, i) ==
  { j \in 1..Len(callLogs[id]) :
      /\ callLogs[id][j].minute >= callLogs[id][i].minute
      /\ callLogs[id][j].minute - callLogs[id][i].minute < 60 }

\* C20: no chat receives more than maxCallsPerHour (10) automatically
\* posted calls within any one-hour window.
C20_HourlyLimit ==
  \A id \in DOMAIN callLogs :
    \A i \in 1..Len(callLogs[id]) :
      Cardinality(PostedWithinHourOf(id, i)) <= maxCallsPerHour

(***************************************************************************)
(* Properties of applyFilter, rule by rule                                 *)
(***************************************************************************)
\* The eight rules of the Filter Engine, by the name under which applyFilter
\* reports each: whether the rule is violated by the arguments of the call
RuleNames ==
  { "Liquidity", "5m volume", "Age", "Holders", "Top 10 holders", "Liq/MCap",
    "Buy/Sell ratio", "MCap wash trading" }

RuleViolated(rule, pair, metrics, policy, ageMinutes) ==
  CASE rule = "Liquidity" -> ~(pair.liquidity >= policy.minLiquidity)
    [] rule = "5m volume" -> ~(pair.volM5 >= policy.minVolume5m)
    [] rule = "Age" -> ~(ageMinutes <= policy.maxAgeMinutes)
    [] rule = "Holders" ->
         metrics.holders > 0 /\ metrics.holders < policy.minHolders
    [] rule = "Top 10 holders" -> metrics.topHolderConcentration > 50
    [] rule = "Liq/MCap" ->
         /\ pair.marketCap > 0 /\ pair.liquidity > 0
         /\ pair.liquidity * 100 < policy.minLiquidityRatio * pair.marketCap
    [] rule = "Buy/Sell ratio" ->
         pair.sells > 0 /\ pair.buys * 10 < policy.minBuySellRatio * pair.sells
    [] rule = "MCap wash trading" ->
         /\ pair.marketCap > 5000000 /\ ageMinutes < 15
         /\ pair.volH1 * 10 < pair.marketCap

MessagesFor(failures, rule) ==
  { i \in 1..Len(failures) : failures[i].rule = rule }

\* C23: the failures list of applyFilter holds exactly one message for each
\* violated rule and none for a rule that holds, so its length is the number
\* of violated rules; a top-holder concentration above 50 is a failure
\* under every policy.
C23_OneMessagePerViolatedRule ==
  call.fn = "applyFilter" =>
    LET failures == call.result.failures
        age == now - call.pair.pairCreatedAt
        violated == { r \in RuleNames :
                        RuleViolated(r, call.pair, call.metrics, call.filter, age) }
    IN /\ \A r \in RuleNames :
            Cardinality(MessagesFor(failures, r))
              = IF r \in violated THEN 1 ELSE 0
       /\ \A i \in 1..Len(failures) : failures[i].rule \in RuleNames
       /\ Len(failures) = Cardinality(violated)
       /\ call.metrics.topHolderConcentration > 50
            => HasFailure(failures, "Top 10 holders")

\* A call under the aggressive policy that violated four rules at once, the
\* concentration ceiling and the outlier guard among them
C23_Witness ==
  /\ call.fn = "applyFilter"
  /\ call.filter = AGGRESSIVE_GRADUATION_FILTER
  /\ Len(call.result.failures) >= 4
  /\ HasFailure(call.result.failures, "Top 10 holders")
  /\ HasFailure(call.result.failures, "MCap wash trading")

(***************************************************************************)
(* Properties of the scans when the holder data is unknown                 *)
(***************************************************************************)
HolderDataUnknown(p) == p.holderCount = 0 /\ p.topHolderConcentration = 0

\* The metrics of a pair with holders = 0 and topHolderConcentration = 0
UnknownHolderMetrics(p) == Enrich(pairToMetrics(p, now), p, 0, 0)

\* The scan returns the pair if the holder data play no part: always in
\* scanForGraduations, in scanFreshGraduations if it is young enough and
\* passes the filter with the holder data unknown
ReturnedHoldersApart(p) ==
  \/ op = "scanForGraduations"
  \/ /\ op = "scanFreshGraduations"
     /\ AgeOf(p) <= filter.maxAgeMinutes
     /\ applyFilter(p, UnknownHolderMetrics(p), filter, now).passes

\* C26: in scanForGraduations and scanFreshGraduations a candidate whose
\* holder-enrichment calls both fail or return 0 is still returned, has no
\* holder-count and no concentration failure, and scores what
\* calculateScore gives with holders = 0 and topHolderConcentration = 0.
C26_UnknownHoldersNeutral ==
  \A p \in Range(market) :
    (HolderDataUnknown(p) /\ ReturnedHoldersApart(p)) =>
      \E c \in Range(candidates) :
        /\ c.pair = p
        /\ ~HasFailure(c.filterFailures, "Holders")
        /\ ~HasFailure(c.filterFailures, "Top 10 holders")
        /\ c.score = calculateScore(p, UnknownHolderMetrics(p))

(***************************************************************************)
(* Properties of the seen-set                                              *)
(***************************************************************************)
\* The scan of invocation k returns: the filter, the marking and the trim
ScanReturns(k) ==
  service = "telegram" /\ cyc[k].pc = "scan" /\ cyc'[k].pc # "scan"

\* The step adds the mints `added` to the seen-set and removes its `n`
\* earliest mints
SeenStep(n, added) ==
  /\ seenTokens' = SubSeq(seenTokens, n + 1, Len(seenTokens)) \o added
  /\ \A i \in 1..Len(added) : ~InSeq(seenTokens, added[i])
  /\ n > 0 => Len(seenTokens') = SEEN_LIMIT

\* C24: the seen-set never holds more than SEEN_LIMIT (500) mints once the
\* scan step of a cycle is over; the scan step appends the cycle's
\* high-potential mints, and when it trims it removes the mints inserted
\* earliest.
C24_SeenBounded ==
  /\ [](Len(seenTokens) <= SEEN_LIMIT)
  /\ [][ /\ seenTokens' # seenTokens => \E k \in Cycles : ScanReturns(k)
         /\ \A k \in Cycles :
              ScanReturns(k) =>
                \E n \in 0..Len(seenTokens) :
                  SeenStep(n, Mints(cyc'[k].highPotential)) ]_vars

\* A full seen-set took two new mints and lost its two earliest
C24_Witness ==
  /\ Len(seenTokens) = SEEN_LIMIT
  /\ seenTokens[1] = "s3"
  /\ seenTokens[SEEN_LIMIT - 1] = "a1"
  /\ seenTokens[SEEN_LIMIT] = "a2"

(***************************************************************************)
(* Properties of what the Telegram scheduler dispatches                    *)
(***************************************************************************)
\* The invocation is about to send, or has just sent, a candidate
InCandidateLoop(f) ==
  f.pc \in {"send", "addCallLog", "saveChatConfig", "delay"}

\* chat.display?.minScore || chat.policy.thresholds.minConfidenceScore
OwnMinScore(chat) ==
  IF chat.displayMinScore # 0 THEN chat.displayMinScore
  ELSE chat.minConfidenceScore

\* What holds of a candidate at the moment it is sent to a recipient
C25_Dispatched ==
  \A k \in Cycles :
    (service = "telegram" /\ cyc[k].pc = "send") =>
      LET f == cyc[k]
          c == f.chatCandidates[f.ki]
          chat == f.chats[f.ci]
      IN /\ c.passesFilter
         /\ c.score >= MIN_SCORE
         /\ c.score >= OwnMinScore(chat)
         /\ c.mint \notin f.seenAtStart
         /\ chat.autopostEnabled

\* The recipient whose call log is being read was found outside its quiet
\* hours by this invocation
C25_OutsideQuietHours ==
  \A k \in Cycles :
    (service = "telegram" /\ cyc[k].pc = "getCallLogs") =>
      LET f == cyc[k]
      IN /\ f.check.id = f.chats[f.ci].id
         /\ f.check.ci = f.ci
         /\ ~QuietWindow(f.check.start, f.check.end, f.check.hour)

\* The candidate loop of a recipient is entered only from the read of that
\* recipient's call log
C25_LoopOfCheckedRecipient ==
  \A k \in Cycles :
    (service = "telegram" /\ InCandidateLoop(cyc'[k])) =>
      /\ InCandidateLoop(cyc[k]) \/ cyc[k].pc = "getCallLogs"
      /\ cyc'[k].ci = cyc[k].ci

\* C25: every candidate the Telegram scanAndNotify dispatches has
\* passesFilter = true, a score of at least the global minScore and of at
\* least the recipient's own minimum score, and was not in the seen-set
\* when the cycle began; the recipient has autopost enabled and was found
\* outside its quiet hours in that cycle.
C25_OnlyQualifiedDispatch ==
  /\ [](C25_Dispatched /\ C25_OutsideQuietHours)
  /\ [][C25_LoopOfCheckedRecipient]_vars

(***************************************************************************)
(* Properties of the marking of seen mints                                 *)
(***************************************************************************)
\* The scan step of an invocation marks exactly its high-potential mints,
\* none of which was marked before, and no send has been made by then
C28_MarkedAtScan ==
  \A k \in Cycles :
    ScanReturns(k) =>
      /\ cyc'[k].pc = "recipientHead"
      /\ cyc'[k].sent = 0
      /\ \A i \in 1..Len(cyc'[k].highPotential) :
           /\ ~InSeq(seenTokens, cyc'[k].highPotential[i].mint)
           /\ InSeq(seenTokens', cyc'[k].highPotential[i].mint)

\* Outside its scan step an invocation's high-potential list is changed only
\* by the end of the invocation, and the seen-set is changed by nothing else
C28_OnlyAtScan ==
  \A k \in Cycles :
    (service = "telegram" /\ ~ScanReturns(k)) =>
      /\ cyc'[k].highPotential \in {cyc[k].highPotential, <<>>}
      /\ (\A j \in Cycles : ~ScanReturns(j)) => seenTokens' = seenTokens

\* What is sent is one of the invocation's own high-potential candidates
C28_SendsOwnCandidates ==
  \A k \in Cycles :
    (service = "telegram" /\ cyc[k].pc = "send") =>
      \E i \in 1..Len(cyc[k].highPotential) :
        cyc[k].highPotential[i] = cyc[k].chatCandidates[cyc[k].ki]

Begun == { k \in Cycles : cyc[k].pc = "idle" /\ cyc'[k].pc # "idle" }

\* The only active timer is the one intervalId names
C29_OneTimer ==
  /\ Cardinality(timers) <= 1
  /\ timers = (IF intervalId # 0 THEN {intervalId} ELSE {})
  /\ isRunning <=> intervalId # 0

C29_StartStop ==
  \* a timer is created only by start() on a stopped service, together with
  \* exactly one invocation of scanAndNotify
  /\ timerSeq' # timerSeq =>
       /\ ~isRunning /\ isRunning'
       /\ timers' = {timerSeq'}
       /\ Cardinality(Begun) = 1
  \* on a running service a step creates no timer, and an invocation begins
  \* only by the timer firing
  /\ isRunning => (timerSeq' = timerSeq /\ timers' \subseteq timers)
  \* isRunning() turns true only with the new timer, false only by stop()
  /\ (~isRunning /\ isRunning') => timerSeq' # timerSeq
  /\ (isRunning /\ ~isRunning') => (timers' = {} /\ intervalId' = 0 /\ Begun = {})
  /\ ~isRunning => (Begun # {} => timerSeq' # timerSeq)

\* C29: in both services at most one interval timer is active; a timer is
\* created only by start() on a stopped service, with exactly one immediate
\* scan, so start() on a running service creates none and starts no scan;
\* isRunning() is true from a start() until the next stop() and false
\* otherwise.
C29_SingleTimer == []C29_OneTimer /\ [][C29_StartStop]_vars

\* The service was started, stopped and started again: the second timer is
\* the only one active
C29_Witness ==
  /\ timerSeq = 2
  /\ isRunning
  /\ timers = {2}

(***************************************************************************)
(* Properties of getLatestSolanaPairs                                      *)
(***************************************************************************)
\* pair is the first pair of its base token in the page
FirstOccurrence(pair, page) ==
  \E i \in 1..Len(page) :
    /\ page[i] = pair
    /\ \A j \in 1..(i - 1) : page[j].mint # pair.mint

\* C30: every result of getLatestSolanaPairs(limit) has at most limit pairs,
\* no two with the same base-token address, each the first occurrence of its
\* token in the fetched page and each a Raydium pair on Solana; also when
\* the result comes from the cache after a call with a different limit.
C30_LatestWithinLimit ==
  answer.fn = "getLatestSolanaPairs" =>
    /\ Len(answer.data) <= answer.limit
    /\ \A i, j \in 1..Len(answer.data) :
         answer.data[i].mint = answer.data[j].mint => i = j
    /\ \A i \in 1..Len(answer.data) :
         /\ answer.data[i].dexId = "raydium"
         /\ answer.data[i].chainId = "solana"
         /\ FirstOccurrence(answer.data[i], MapGet(lastStored, LatestPage).data)

(***************************************************************************)
(* Properties of the webhook handlers                                      *)
(***************************************************************************)
\* The handler of an update ends in this step
HandlerEnds == bot.pc # "done" /\ bot'.pc = "done"

\* C21: when an admin sends '/autopost on' the chat's autopostEnabled is
\* true once the command is handled, and false after '/autopost off',
\* whatever it was before; so the same command sent twice leaves the
\* setting where the first one put it.
C21_AutopostOnOff ==
  [][ ( /\ HandlerEnds
        /\ bot'.update.kind = "message"
        /\ bot'.update.command = "autopost"
        /\ bot'.isAdmin )
      => chats'[bot'.update.chatId].autopostEnabled = (bot'.update.arg = "on")
    ]_vars

\* The fields of a stored configuration that commands and buttons set
Settings(config) ==
  << config.autopostEnabled, config.displayMinScore,
     config.minConfidenceScore, config.preset, config.vibeMode >>

\* The sender is an administrator or the creator of the chat
SentByAdmin(u) == u.status \in {"creator", "administrator"}

\* C22: no command and no button callback from a user who is not an
\* administrator or the creator of the chat changes the stored configuration
\* of an existing chat: the handling of such an update never loads or saves
\* the configuration and leaves autopostEnabled, the minimum score, the
\* policy and the vibe mode as they were.
C22_AdminOnly ==
  /\ [] ( ~SentByAdmin(bot.update) =>
            bot.pc \in {"idle", "done"} /\ bot.reply \in {NONE, "Admin only"} )
  /\ [][ (bot' # bot /\ ~SentByAdmin(bot'.update)) =>
           \A id \in DOMAIN chats : Settings(chats'[id]) = Settings(chats[id])
       ]_vars

\* A member's /setrisk 7 was refused after an admin had changed the settings
C22_Witness ==
  /\ bot.pc = "done"
  /\ bot.update = Message("setrisk", 7, "member")
  /\ bot.reply = "Admin only"
  /\ chats["c1"].vibeMode = "cautious"
  /\ chats["c1"].displayMinScore = 14

\* The saveChatConfig of invocation k for its current recipient resolves
CycleSaves(k) ==
  service = "telegram" /\ cyc[k].pc = "saveChatConfig"
    /\ cyc'[k].pc # "saveChatConfig"

\* C27: a configuration change an admin command saved while a scan cycle
\* was running is not lost: the cycle's own saveChatConfig(chat) for the
\* recipient leaves the stored autopostEnabled, minimum score, policy and
\* vibe mode as the admin's command stored them.
C27_AdminChangeKept ==
  [][ \A k \in Cycles :
        CycleSaves(k) =>
          LET id == cyc[k].chats[cyc[k].ci].id
          IN Settings(chats'[id]) = Settings(chats[id])
    ]_vars

====
